---- MODULE Spec2Model ----
(***************************************************************************)
(* Model of package amqputil (src/amqputil/amqputil.go): one AmqpContext   *)
(* driven by one caller against an AMQP broker.  The broker, the amqp      *)
(* client library and the Go runtime (nil dereference, write to a nil map) *)
(* are the environment.                                                    *)
(***************************************************************************)
EXTENDS Naturals, Integers, Sequences, FiniteSets, TLC

\* one AmqpContext driven by one caller: the context, the broker, the caller's
\* position, the receive call in progress and the last completed call
VARIABLES amqpContext, broker, pc, call, last
\* the callers that use the context at the same time
VARIABLES threads
\* package dbutil (src/dbutil/dbutil.go): one DbContext, the database behind it
\* with the helper's cached connection, and the last completed DbContext call
VARIABLES dbContext, database, dbLast
\* serviceutil.AsGrpcError, apputil logging and DbConnectionHelper under goroutines
VARIABLES grpcCall, logging, helper, dbThreads
\* a ReceiveMessage caller and a ReceiveProtoMessage caller, each with a context
\* and a broker of its own, that are given the same calls and the same broker
\* behaviour
VARIABLES twin

amqpVars == <<amqpContext, broker, pc, call, last>>
concVars == <<threads>>
dbVars == <<dbContext, database, dbLast>>
utilVars == <<grpcCall, logging, helper, dbThreads, twin>>
vars == <<amqpVars, concVars, dbVars, utilVars>>

(* ------------------------------ bounds -------------------------------- *)
\* most messages the broker holds at a time, over all queues
MaxMessages == 1
\* most replaced channels left open by caller-issued Reset calls
MaxStale == 1
\* most DbContexts obtained from the helper, and most Close calls on them
MaxDbContexts == 2
MaxDbCloses == 3

(* ------------------------- program constants -------------------------- *)
\* retries < 10 in both loops of registerConsumer
MaxRetries == 10
\* time.Sleep(3 * time.Second)
BackoffSeconds == 3
\* time.After(10 * time.Second)
ReceiveTimeoutSeconds == 10
\* notFoundError.Code == 404
NotFoundCode == 404

Queues == {"q1", "q2"}
\* values a caller passes to PublishMessage; "chan" is a Go value json.Marshal rejects
Values == {"hello", "chan"}
\* bodies another publisher may put on a queue: empty, and not decodable
ForeignBodies == {"", "{bad"}

(* ------------------------------ errors -------------------------------- *)
Err(kind, code, queue, cause) ==
  [kind |-> kind, code |-> code, queue |-> queue, cause |-> cause]
NilErr == Err("nil", 0, "", "")
ErrNoMessage == Err("ErrNoMessage", 0, "", "")
DialError == Err("amqp.Dial", 0, "", "")
ChannelOpenError == Err("connection.Channel", 0, "", "")
\* *amqp.Error with its Code; code 0 stands for every code other than 404
AmqpError(code) == Err("amqp.Error", code, "", "")
ErrClosed == AmqpError(0)
MarshalError == Err("json.Marshal", 0, "", "")
\* errors.Wrapf(e, msg, arg): the message, its argument (the queue name or the
\* message published) and the wrapped cause
Wrapf(e, msg, arg) == Err(msg, e.code, arg, e.kind)
\* the type assertion err.(*amqp.Error) with Code == 404 of registerConsumer
IsNotFound(e) == e.kind = "amqp.Error" /\ e.code = NotFoundCode

(* ------------------------------ codecs -------------------------------- *)
\* json.Marshal: the body for an encodable value, "" with ok = FALSE otherwise
Marshal(v) ==
  IF v = "chan" THEN [ok |-> FALSE, body |-> ""]
  ELSE [ok |-> TRUE, body |-> "{\"text\":\"" \o v \o "\"}"]
\* json.Unmarshal into the destination
Unmarshal(body) ==
  IF \E v \in Values : Marshal(v).ok /\ Marshal(v).body = body
  THEN [ok |-> TRUE,
        value |-> CHOOSE v \in Values : Marshal(v).ok /\ Marshal(v).body = body]
  ELSE [ok |-> FALSE, value |-> ""]
\* protojson.Unmarshal into the destination message
ProtoUnmarshal(body) ==
  IF \E v \in Values : Marshal(v).ok /\ Marshal(v).body = body
  THEN [ok |-> TRUE,
        value |-> CHOOSE v \in Values : Marshal(v).ok /\ Marshal(v).body = body]
  ELSE [ok |-> FALSE, value |-> ""]
UnmarshalError == Err("json.Unmarshal", 0, "", "")
ProtoUnmarshalError == Err("protojson.Unmarshal", 0, "", "")

Bodies == {Marshal(v).body : v \in {w \in Values : Marshal(w).ok}} \cup ForeignBodies

(* --------------------------- initial values --------------------------- *)
NoQueues == [q \in Queues |-> "none"]
NoDeliveries == [q \in Queues |-> "nil"]

\* &AmqpContext{} : every field at its zero value
ZeroContext ==
  [err |-> NilErr, channel |-> "nilif", connection |-> "nil", consumerId |-> "",
   mapsNil |-> TRUE, queues |-> NoQueues, deliveryChannels |-> NoDeliveries]

\* the broker and the client library's view of this context's connection:
\* the queues that exist and their messages; whether the channel the context
\* holds is open, how many channels it replaced are still open, whether
\* prefetch is set on the current channel, its consumers, the state of the
\* delivery stream last returned for each queue, and the queues a QueueDeclare
\* through the current channel handle succeeded for
InitBroker ==
  [exists |-> {}, msgs |-> [q \in Queues |-> <<>>],
   chanOpen |-> FALSE, stale |-> 0, qos |-> FALSE,
   consumers |-> {}, streams |-> [q \in Queues |-> "none"],
   declared |-> {}]

\* the receive call in progress: its arguments, the local variable retries, and
\* how many channel calls and Resets the current loop has made and how many
\* seconds it has slept
\* prev is how the preceding call ended when it was a receive from the same queue
\* or a PublishMessage to it that returned nil, expect the value that call
\* published; consumed is whether this call has registered a consumer
NoCall ==
  [q |-> "", proto |-> FALSE, prev |-> "", expect |-> "", consumed |-> FALSE,
   retries |-> 0, attempts |-> 0, resets |-> 0, slept |-> 0]

\* the most recently completed call: its result, the channel calls it made and,
\* for Reset, the queues whose registry entries it discarded; for a receive,
\* the seconds the select waited when its timer fired
NoLast ==
  [op |-> "", q |-> "", ret |-> NilErr, delivery |-> FALSE, value |-> "",
   outcome |-> "", calls |-> <<>>, dropped |-> {}, waited |-> 0]

\* the goroutines that may call PublishMessage on the one context
Threads == {"t1", "t2"}

\* a goroutine's PublishMessage call: its position, its arguments, the results
\* QueueDeclare handed it (res), what its EnsureQueueExists returned (eq) and what
\* the call returned (ret); declared is whether it issued a QueueDeclare, own
\* the error its own broker calls and encoding produced, overlap whether the
\* other goroutine's call was in progress when it began
NoThread ==
  [pc |-> "idle", q |-> "", v |-> "", res |-> [entry |-> "none", err |-> NilErr],
   eq |-> NilErr, ret |-> NilErr, declared |-> FALSE, own |-> NilErr,
   overlap |-> FALSE]
NoThreads == [t \in Threads |-> NoThread]

\* &DbContext{ctx: ctx}: db and tx are nil or set, ctx is whether a
\* cancellation context was given, errorHandler the registered handler
ZeroDbContext ==
  [err |-> NilErr, db |-> "nil", ctx |-> FALSE, tx |-> "nil", errorHandler |-> "nil"]

\* pc is "none" before GetDbContext, then "ready", or "crashed" after a panic;
\* dbConnection is the helper's cached *sql.DB; txState the state of the
\* transaction the context holds or held; active is the gauge
\* active_db_contexts, obtained the contexts GetDbContext has returned, closed
\* those of them that were closed, closes the Close calls made, and isClosed
\* whether the context in hand was closed
NoDatabase ==
  [pc |-> "none", dbConnection |-> "nil", txState |-> "none",
   active |-> 0, obtained |-> 0, closed |-> 0, closes |-> 0, isClosed |-> FALSE]

\* the last completed DbContext call: its return value, whether it returned a
\* row or rows, the database calls it sent, and the handler invocations it made
NoDbLast ==
  [op |-> "", ret |-> NilErr, row |-> FALSE, sent |-> <<>>, handled |-> <<>>]

\* AsGrpcError not called yet
NilStatus == [isNil |-> TRUE, code |-> "", message |-> <<>>]
NoGrpcCall == [err |-> NilErr, message |-> <<>>, args |-> <<>>, done |-> FALSE,
               ret |-> NilStatus]
\* var logger *LoggerWrapper is nil until the first InitLogging
NoLogging == [version |-> "slog", logger |-> 0, inner |-> 0, level |-> "",
              created |-> 0, installed |-> 0, first |-> 0, ret |-> 0, calls |-> 0,
              op |-> "", exited |-> FALSE]
\* a DbConnectionHelper with no cached connection and its lock free
\* opened counts the successful sql.Open since the cache was last cleared, made
\* every connection ever opened, closes the times CloseContexts cleared the
\* cache, active is the gauge activeContexts; contended records that a
\* goroutine waited for the lock while another was between Lock and Unlock
NoHelper == [dbConnection |-> 0, lock |-> "none", opened |-> 0, made |-> 0, closes |-> 0,
             active |-> 0, contended |-> FALSE]
\* a goroutine calling GetDbContext or CloseContexts: where it is, the
\* DbContext it is building, the value of closes when it read the cache, and
\* the calls it has made
NoDbThread == [pc |-> "idle", op |-> "", useTransaction |-> FALSE, db |-> 0, err |-> NilErr,
               tx |-> FALSE, epoch |-> 0, calls |-> 0]
NoDbThreads == [t \in Threads |-> NoDbThread]
\* one caller's run: its context and broker, its position, the receive call
\* in progress with how many channel calls of each kind it has made, and its
\* last completed call
NoCalls == [Qos |-> 0, Reset |-> 0, Consume |-> 0, Cancel |-> 0]
\* one more call of the named channel method or of Reset
Called(k, name) == [k EXCEPT ![name] = @ + 1]
NoRun ==
  [c |-> ZeroContext, b |-> InitBroker, pc |-> "start", call |-> NoCall,
   calls |-> NoCalls, last |-> NoLast]
NoTwin == [json |-> NoRun, proto |-> NoRun]

NoUtil ==
  /\ grpcCall = NoGrpcCall
  /\ logging = NoLogging
  /\ helper = NoHelper
  /\ dbThreads = NoDbThreads
  /\ twin = NoTwin

NoDb ==
  /\ dbContext = ZeroDbContext
  /\ database = NoDatabase
  /\ dbLast = NoDbLast

Init ==
  /\ amqpContext = ZeroContext
  /\ broker = InitBroker
  /\ pc = "start"
  /\ call = NoCall
  /\ last = NoLast
  /\ threads = NoThreads
  /\ NoDb
  /\ NoUtil

(* ------------------- broker and client library ------------------------ *)
\* the connection is lost or closed: every channel on it and every delivery
\* stream of those channels is closed
CloseConnection(b) ==
  [b EXCEPT !.chanOpen = FALSE, !.stale = 0, !.qos = FALSE, !.consumers = {},
            !.streams = [q \in Queues |-> IF b.streams[q] = "open" THEN "closed"
                                          ELSE b.streams[q]]]

\* a channel exception: the broker closes the context's current channel
CloseChannel(b) ==
  [b EXCEPT !.chanOpen = FALSE, !.qos = FALSE, !.consumers = {},
            !.streams = [q \in Queues |-> IF b.streams[q] = "open" THEN "closed"
                                          ELSE b.streams[q]]]

\* a fresh channel replaces the current one; the replaced channel is not closed
OpenChannel(b) ==
  [b EXCEPT !.chanOpen = TRUE, !.qos = FALSE, !.consumers = {}, !.declared = {},
            !.stale = IF b.chanOpen THEN b.stale + 1 ELSE b.stale,
            !.streams = [q \in Queues |-> "none"]]

\* a method call through a nil interface or on a nil *Channel / *Connection
IsNilChannel(c) == c.channel \in {"nilif", "nilptr"}

(* ----------------------- results of an operation ---------------------- *)
Ret(c, b, ret, calls) == [c |-> c, b |-> b, ret |-> ret, panic |-> FALSE, calls |-> calls]
Panic(c, b, calls) == [c |-> c, b |-> b, ret |-> NilErr, panic |-> TRUE, calls |-> calls]

(* ------------------------------ Reset --------------------------------- *)
\* a Reset that forgets to reinitialise the delivery registry
ResetKeepsDeliveries(c) == [c EXCEPT !.mapsNil = FALSE, !.queues = NoQueues]

\* a Reset that forgets to reinitialise the queue registry
ResetKeepsQueues(c) == [c EXCEPT !.mapsNil = FALSE, !.deliveryChannels = NoDeliveries]

\* the tail of Reset: registries are reinitialised after the channel is open
ResetRegistries(c) ==
  [c EXCEPT !.mapsNil = FALSE, !.queues = NoQueues, !.deliveryChannels = NoDeliveries]

\* the channel Reset installs when connection.Channel() fails: a nil *Channel
FailedChannel == "nilptr"

\* a failed redial that also throws the registries away
DialFailedDropsRegistries(c) ==
  [c EXCEPT !.connection = "nil", !.err = DialError, !.queues = NoQueues,
            !.deliveryChannels = NoDeliveries]

\* line 95 when amqp.Dial fails: connection, err = nil, the dial error
DialFailed(c) == [c EXCEPT !.connection = "nil", !.err = DialError]

Reset(c, b, dialOk, chOk) ==
  IF c.connection = "nil" THEN Panic(c, b, <<"IsClosed">>)
  ELSE IF c.connection = "closed" /\ ~dialOk
  THEN Ret(DialFailed(c), b, DialFailed(c).err, <<"IsClosed", "Dial">>)
  ELSE
    LET dialled == c.connection = "closed"
        pre == IF dialled THEN <<"IsClosed", "Dial", "Channel">>
               ELSE <<"IsClosed", "Channel">>
    IN IF ~chOk
       THEN \* the connection breaks while the channel is opened
            Ret([c EXCEPT !.connection = "closed", !.channel = FailedChannel,
                          !.err = ChannelOpenError],
                [CloseConnection(b) EXCEPT !.declared = {}], ChannelOpenError, pre)
       ELSE Ret(ResetRegistries([c EXCEPT !.connection = "open", !.channel = "chan",
                                          !.err = NilErr]),
                OpenChannel(b), NilErr, pre)

(* ------------------------- EnsureQueueExists -------------------------- *)
\* what line 121 stores in the registry when QueueDeclare returns an error
FailedDeclareEntry == "zero"

\* the value EnsureQueueExists leaves in err when the queue is already cached
CachedQueueErr(c) == c.err

\* a lookup that never finds the queue name
RegistryAlwaysMisses(c, q) == FALSE

\* _, ok := amqpContext.queues[queueName] (a nil map holds no key)
InQueueRegistry(c, q) == ~c.mapsNil /\ c.queues[q] # "none"

\* an EnsureQueueExists that reports a failed declaration as success
EnsureSwallowsFailure(c, b, q, declOk) ==
  IF InQueueRegistry(c, q)
  THEN Ret([c EXCEPT !.err = CachedQueueErr(c)], b, NilErr, <<>>)
  ELSE IF IsNilChannel(c) \/ c.mapsNil THEN Panic(c, b, <<"QueueDeclare">>)
  ELSE IF b.chanOpen /\ declOk
  THEN Ret([c EXCEPT !.queues[q] = "declared", !.err = NilErr],
           [b EXCEPT !.exists = @ \cup {q}, !.declared = @ \cup {q}],
           NilErr, <<"QueueDeclare">>)
  ELSE Ret([c EXCEPT !.queues[q] = FailedDeclareEntry, !.err = NilErr],
           CloseChannel(b), NilErr, <<"QueueDeclare">>)

EnsureQueueExists(c, b, q, declOk) ==
  IF InQueueRegistry(c, q)
  THEN Ret([c EXCEPT !.err = CachedQueueErr(c)], b, NilErr, <<>>)
  ELSE IF IsNilChannel(c) \/ c.mapsNil THEN Panic(c, b, <<"QueueDeclare">>)
  ELSE IF b.chanOpen /\ declOk
  THEN Ret([c EXCEPT !.queues[q] = "declared", !.err = NilErr],
           [b EXCEPT !.exists = @ \cup {q}, !.declared = @ \cup {q}],
           NilErr, <<"QueueDeclare">>)
  ELSE LET e == Wrapf(ErrClosed, "Cannot declare AMQP queue", q)
       IN Ret([c EXCEPT !.queues[q] = FailedDeclareEntry, !.err = e],
              CloseChannel(b), e, <<"QueueDeclare">>)

(* --------------------------- PublishMessage --------------------------- *)
\* the number of messages the broker holds
RECURSIVE Held(_, _)
Held(b, qs) ==
  IF qs = {} THEN 0
  ELSE LET q == CHOOSE x \in qs : TRUE IN Len(b.msgs[q]) + Held(b, qs \ {q})

\* the broker routes a message published to the default exchange
Route(b, q, body) ==
  IF q \in b.exists THEN [b EXCEPT !.msgs[q] = Append(@, body)] ELSE b

PublishMessage(c, b, q, v, declOk, pubOk) ==
  LET r == EnsureQueueExists(c, b, q, declOk)
      c1 == [r.c EXCEPT !.err = r.ret]
      m == Marshal(v)
  IN IF r.panic THEN r
     ELSE IF r.ret # NilErr THEN Ret(c1, r.b, r.ret, r.calls)
     ELSE IF ~m.ok
     THEN LET e == Wrapf(MarshalError, "Failed to marshall AMQP message", v)
          IN Ret([c1 EXCEPT !.err = e], r.b, e, r.calls)
     ELSE IF IsNilChannel(c1) THEN Panic(c1, r.b, Append(r.calls, "Publish"))
     ELSE IF r.b.chanOpen /\ pubOk
     THEN Ret(c1, Route(r.b, q, m.body), c1.err, Append(r.calls, "Publish"))
     ELSE LET e == Wrapf(ErrClosed, "Failed to publish AMQP message", v)
          IN Ret([c1 EXCEPT !.err = e], CloseChannel(r.b), e, Append(r.calls, "Publish"))

(* ------------------------------- Close -------------------------------- *)
\* a Close that closes the connection only
CloseSkipsChannel(c, b, closeOk) ==
  IF c.connection = "nil" THEN Panic(c, b, <<"connection.Close">>)
  ELSE LET e == IF c.connection = "open" /\ closeOk THEN NilErr ELSE ErrClosed
       IN Ret([c EXCEPT !.connection = "closed", !.err = e],
              CloseConnection(b), e, <<"connection.Close">>)

Close(c, b, closeOk) ==
  IF c.channel = "nilptr" THEN Panic(c, b, <<"channel.Close">>)
  ELSE
    LET pre == IF c.channel # "nilif" THEN <<"channel.Close">> ELSE <<>>
        calls == Append(pre, "connection.Close")
    IN IF c.connection = "nil" THEN Panic(c, b, calls)
       ELSE LET e == IF c.connection = "open" /\ closeOk THEN NilErr ELSE ErrClosed
            IN Ret([c EXCEPT !.connection = "closed", !.err = e],
                   CloseConnection(b), e, calls)

(* -------------------------- registerConsumer -------------------------- *)
\* channel.Qos(1, 0, false) on the current channel
Qos(c, b, qosOk) ==
  IF b.chanOpen /\ qosOk
  THEN Ret([c EXCEPT !.err = NilErr], [b EXCEPT !.qos = TRUE], NilErr, <<"Qos">>)
  ELSE Ret([c EXCEPT !.err = ErrClosed], CloseChannel(b), ErrClosed, <<"Qos">>)

\* the consumer tag registerConsumer passes to Consume for queue q
ConsumerTag(c, q) == c.consumerId

\* channel.Consume(queueName, tag, false, false, false, false, nil)
Consume(c, b, q, consumeOk) ==
  IF ~b.chanOpen THEN Ret([c EXCEPT !.err = ErrClosed], b, ErrClosed, <<"Consume">>)
  ELSE IF q \notin b.exists
  THEN Ret([c EXCEPT !.err = AmqpError(NotFoundCode)], CloseChannel(b),
           AmqpError(NotFoundCode), <<"Consume">>)
  ELSE IF ~consumeOk
  THEN Ret([c EXCEPT !.err = ErrClosed], CloseChannel(b), ErrClosed, <<"Consume">>)
  ELSE Ret([c EXCEPT !.err = NilErr],
           [b EXCEPT !.consumers = @ \cup {[queue |-> q, tag |-> ConsumerTag(c, q)]},
                     !.streams[q] = "open"],
           NilErr, <<"Consume">>)

\* the condition of the loop at line 167
QosRetryAllowed(c, retries) == c.err # NilErr /\ retries < MaxRetries

\* the retry branch with the budget off by one
ConsumeRetryOffByOne(c, retries) == IsNotFound(c.err) /\ retries <= MaxRetries

\* the retry branch taken for every Consume error
ConsumeRetryAnyError(c, retries) == c.err # NilErr /\ retries < MaxRetries

\* the condition of the retry branch at line 192
ConsumeRetryAllowed(c, retries) == IsNotFound(c.err) /\ retries < MaxRetries

\* a Cancel that never reaches the broker
CancelNothing(b, tag) == b

\* channel.Cancel(consumerId, false): the consumers registered under the tag are
\* cancelled and the library closes their delivery streams
Cancel(b, tag) ==
  IF ~b.chanOpen THEN b
  ELSE [b EXCEPT !.consumers = {x \in @ : x.tag # tag},
                 !.streams = [q \in Queues |->
                    IF \E x \in b.consumers : x.queue = q /\ x.tag = tag
                    THEN "closed" ELSE b.streams[q]]]

(* ------------------------------ actions ------------------------------- *)
Finish(op, q, ret, outcome, calls) ==
  [NoLast EXCEPT !.op = op, !.q = q, !.ret = ret, !.outcome = outcome, !.calls = calls]

\* a panic ends the process: the context is gone with it
Crash(op, q) ==
  /\ pc' = "crashed"
  /\ amqpContext' = ZeroContext
  /\ broker' = InitBroker
  /\ call' = NoCall
  /\ last' = Finish(op, q, NilErr, "panic", <<>>)

\* a call that runs to completion in one step
Complete(op, q, r) ==
  IF r.panic THEN Crash(op, q)
  ELSE /\ amqpContext' = r.c
       /\ broker' = r.b
       /\ pc' = "idle"
       /\ call' = NoCall
       /\ last' = Finish(op, q, r.ret, "returned", r.calls)

GetAmqpContext(consumerId, dialOk, chOk) ==
  /\ UNCHANGED <<concVars, dbVars, utilVars>>
  /\ pc \in {"start", "nocontext"}
  /\ IF ~dialOk
     THEN /\ pc' = "nocontext"
          /\ last' = Finish("GetAmqpContext", "", DialError, "nil", <<"Dial">>)
          /\ UNCHANGED <<amqpContext, broker, call>>
     ELSE LET c0 == [ZeroContext EXCEPT !.consumerId = consumerId,
                                        !.connection = "open"]
              r == Reset(c0, broker, TRUE, chOk)
          IN /\ amqpContext' = r.c
             /\ broker' = r.b
             /\ pc' = "idle"
             /\ call' = NoCall
             /\ last' = Finish("GetAmqpContext", "", r.c.err, "context",
                               <<"Dial">> \o r.calls)

\* the queues with an entry in either registry
Cached(c) ==
  IF c.mapsNil THEN {}
  ELSE {q \in Queues : c.queues[q] # "none" \/ c.deliveryChannels[q] # "nil"}

ResetCall(dialOk, chOk) ==
  /\ UNCHANGED <<concVars, dbVars, utilVars>>
  /\ pc = "idle"
  /\ broker.chanOpen => broker.stale < MaxStale
  /\ LET r == Reset(amqpContext, broker, dialOk, chOk)
     IN IF r.panic THEN Crash("Reset", "")
        ELSE /\ amqpContext' = r.c
             /\ broker' = r.b
             /\ pc' = "idle"
             /\ call' = NoCall
             /\ last' = [Finish("Reset", "", r.ret, "returned", r.calls) EXCEPT
                           !.dropped = Cached(amqpContext) \ Cached(r.c)]

EnsureQueueExistsCall(q, declOk) ==
  /\ UNCHANGED <<concVars, dbVars, utilVars>>
  /\ pc = "idle"
  /\ Complete("EnsureQueueExists", q, EnsureQueueExists(amqpContext, broker, q, declOk))

PublishMessageCall(q, v, declOk, pubOk) ==
  /\ UNCHANGED <<concVars, dbVars, utilVars>>
  /\ pc = "idle"
  /\ Held(broker, Queues) < MaxMessages
  /\ LET r == PublishMessage(amqpContext, broker, q, v, declOk, pubOk)
     IN IF r.panic THEN Crash("PublishMessage", q)
        ELSE /\ amqpContext' = r.c
             /\ broker' = r.b
             /\ pc' = "idle"
             /\ call' = NoCall
             /\ last' = [Finish("PublishMessage", q, r.ret, "returned", r.calls)
                           EXCEPT !.value = IF r.ret = NilErr THEN v ELSE ""]

CloseCall(closeOk) ==
  /\ UNCHANGED <<concVars, dbVars, utilVars>>
  /\ pc = "idle"
  /\ Complete("Close", "", Close(amqpContext, broker, closeOk))

\* ResetError(), which is SetLastError(nil)
ResetError ==
  /\ UNCHANGED <<concVars, dbVars, utilVars>>
  /\ pc = "idle"
  /\ amqpContext.err # NilErr
  /\ amqpContext' = [amqpContext EXCEPT !.err = NilErr]
  /\ last' = Finish("ResetError", "", NilErr, "returned", <<>>)
  /\ UNCHANGED <<broker, pc, call>>

(* ------------- ReceiveMessage / ReceiveProtoMessage, by step ---------- *)
RecvOp == IF call.proto THEN "ReceiveProtoMessage" ELSE "ReceiveMessage"

\* a lookup that never finds a cached stream
NeverHasDelivery(c, q) == FALSE

\* the lookup deliveryChannels[queueName] != nil (a nil map yields nil)
HasDelivery(c, q) == ~c.mapsNil /\ c.deliveryChannels[q] # "nil"

\* the receive call returns to its caller
RecvReturn(ret, outcome, delivery, value, calls) ==
  /\ pc' = "idle"
  /\ call' = NoCall
  /\ last' = [NoLast EXCEPT !.op = RecvOp, !.q = call.q, !.ret = ret,
                            !.outcome = outcome, !.delivery = delivery,
                            !.value = value, !.calls = calls]

\* the receive call panics
RecvCrash == Crash(RecvOp, call.q)

\* how the preceding call ended, when it was a receive from queue q or a
\* PublishMessage to q that returned nil
Prev(q) ==
  IF last.op \in {"ReceiveMessage", "ReceiveProtoMessage"} /\ last.q = q
     /\ last.outcome \in {"timeout", "closed"}
  THEN last.outcome
  ELSE IF last.op = "PublishMessage" /\ last.q = q /\ last.ret = NilErr
  THEN "published" ELSE ""

\* the value the preceding call published to queue q
Expect(q) == IF Prev(q) = "published" THEN last.value ELSE ""

\* lines 212-218 and 159-166: the registry lookup and, on a miss, the first Qos
ReceiveStart(q, proto, qosOk) ==
  /\ UNCHANGED <<concVars, dbVars, utilVars>>
  /\ pc = "idle"
  /\ LET k == [NoCall EXCEPT !.q = q, !.proto = proto, !.prev = Prev(q),
                            !.expect = Expect(q)]
     IN IF HasDelivery(amqpContext, q)
        THEN /\ pc' = "waiting"
             /\ call' = k
             /\ last' = NoLast
             /\ UNCHANGED <<amqpContext, broker>>
        ELSE IF IsNilChannel(amqpContext)
        THEN Crash(IF proto THEN "ReceiveProtoMessage" ELSE "ReceiveMessage", q)
        ELSE LET r == Qos(amqpContext, broker, qosOk)
             IN /\ amqpContext' = r.c
                /\ broker' = r.b
                /\ pc' = "qos"
                /\ call' = [k EXCEPT !.attempts = 1]
                /\ last' = NoLast

\* lines 167-180: one iteration of the Qos retry loop
QosRetry(dialOk, chOk, qosOk) ==
  /\ UNCHANGED <<concVars, dbVars, utilVars>>
  /\ pc = "qos"
  /\ QosRetryAllowed(amqpContext, call.retries)
  /\   LET r == Reset(amqpContext, broker, dialOk, chOk)
           k == [call EXCEPT !.retries = @ + 1, !.slept = @ + BackoffSeconds, !.resets = @ + 1]
       IN IF r.panic THEN RecvCrash
          ELSE IF r.c.err # NilErr
          THEN /\ amqpContext' = r.c /\ broker' = r.b /\ call' = k
               /\ UNCHANGED <<pc, last>>
          ELSE LET r2 == Qos(r.c, r.b, qosOk)
               IN /\ amqpContext' = r2.c /\ broker' = r2.b
                  /\ call' = [k EXCEPT !.attempts = @ + 1]
                  /\ UNCHANGED <<pc, last>>

\* lines 181-187: the Qos loop is left
QosDone ==
  /\ UNCHANGED <<concVars, dbVars, utilVars>>
  /\ pc = "qos"
  /\ ~QosRetryAllowed(amqpContext, call.retries)
  /\ IF amqpContext.err # NilErr
     THEN LET e == Wrapf(amqpContext.err, "Failed to set Qos on queue", call.q)
          IN /\ amqpContext' = [amqpContext EXCEPT !.err = e]
             /\ RecvReturn(e, "register-failed", FALSE, "", <<>>)
             /\ UNCHANGED broker
     ELSE /\ pc' = "consume"
          /\ call' = [call EXCEPT !.retries = 0, !.attempts = 0, !.resets = 0,
                                  !.slept = 0]
          /\ UNCHANGED <<amqpContext, broker, last>>

\* lines 188-209 and 219-224: one Consume attempt and what follows it
ConsumeAttempt(consumeOk, dialOk, chOk) ==
  /\ UNCHANGED <<concVars, dbVars, utilVars>>
  /\ pc = "consume"
  /\ IF IsNilChannel(amqpContext) THEN RecvCrash
     ELSE
       LET r == Consume(amqpContext, broker, call.q, consumeOk)
           k == [call EXCEPT !.attempts = @ + 1]
       IN IF r.ret = NilErr
          THEN IF r.c.mapsNil THEN RecvCrash
               ELSE /\ amqpContext' = [r.c EXCEPT !.deliveryChannels[call.q] = "chan"]
                    /\ broker' = r.b
                    /\ pc' = "waiting"
                    /\ call' = [k EXCEPT !.retries = 0, !.attempts = 0,
                                         !.resets = 0, !.slept = 0, !.consumed = TRUE]
                    /\ UNCHANGED last
          ELSE IF ConsumeRetryAllowed(r.c, call.retries)
          THEN LET r2 == Reset(r.c, r.b, dialOk, chOk)
               IN IF r2.panic THEN RecvCrash
                  ELSE /\ amqpContext' = r2.c /\ broker' = r2.b
                       /\ call' = [k EXCEPT !.retries = @ + 1, !.resets = @ + 1,
                                            !.slept = @ + BackoffSeconds]
                       /\ UNCHANGED <<pc, last>>
          ELSE LET e == Wrapf(r.c.err, "Cannot consume AMQP queue", call.q)
               IN /\ amqpContext' = [r.c EXCEPT !.err = e]
                  /\ broker' = r.b
                  /\ RecvReturn(e, "register-failed", FALSE, "", <<>>)

\* the stream the select at line 230 reads from
Stream == broker.streams[call.q]

\* line 231: the timer fires because no delivery arrives
RecvTimeout ==
  /\ UNCHANGED <<concVars, dbVars, utilVars>>
  /\ pc = "waiting"
  /\ Stream = "open"
  /\ broker.msgs[call.q] = <<>>
  /\ IF IsNilChannel(amqpContext) THEN RecvCrash
     ELSE /\ amqpContext' = [amqpContext EXCEPT !.err = ErrNoMessage]
          /\ broker' = Cancel(broker, amqpContext.consumerId)
          /\ pc' = "idle"
          /\ call' = NoCall
          /\ last' = [NoLast EXCEPT !.op = RecvOp, !.q = call.q, !.ret = ErrNoMessage,
                                    !.outcome = "timeout", !.calls = <<"Cancel">>,
                                    !.waited = ReceiveTimeoutSeconds]

\* a decoding whose failure is dropped
DecodeIgnoresFailure(body) == [ok |-> TRUE, value |-> ""]

\* line 237: the stream yields a delivery
Decode(body) == IF call.proto THEN ProtoUnmarshal(body) ELSE Unmarshal(body)
DecodeError == IF call.proto THEN ProtoUnmarshalError ELSE UnmarshalError
\* an empty body that is not reported
EmptyBodyNoError(c) == NilErr

EmptyBodyError(c) == Err("Failed to get delivery from delivery chan. Body is empty.",
                         0, "", c.consumerId)

RecvDelivery ==
  /\ UNCHANGED <<concVars, dbVars, utilVars>>
  /\ pc = "waiting"
  /\ Stream = "open"
  /\ broker.msgs[call.q] # <<>>
  /\ LET body == Head(broker.msgs[call.q])
         d == Decode(body)
         e == IF body = "" THEN EmptyBodyError(amqpContext)
              ELSE IF d.ok THEN NilErr ELSE DecodeError
     IN /\ broker' = [broker EXCEPT !.msgs[call.q] = Tail(@)]
        /\ amqpContext' = [amqpContext EXCEPT !.err = e]
        /\ IF body = ""
           THEN RecvReturn(e, "empty-body", FALSE, "", <<>>)
           ELSE RecvReturn(e, IF d.ok THEN "message" ELSE "undecodable",
                           TRUE, d.value, <<>>)

\* line 241: the stream is closed
RecvClosed ==
  /\ UNCHANGED <<concVars, dbVars, utilVars>>
  /\ pc = "waiting"
  /\ Stream = "closed"
  /\ IF IsNilChannel(amqpContext) THEN RecvCrash
     ELSE /\ broker' = Cancel(broker, amqpContext.consumerId)
          /\ RecvReturn(amqpContext.err, "closed", FALSE, "", <<"Cancel">>)
          /\ UNCHANGED amqpContext

(* ---------------------------- environment ----------------------------- *)
\* A change of the broker's queues commutes with the steps of registerConsumer
\* that do not read them, so it is taken before or after those steps.  Queues
\* are not deleted while the context lives.
\* the connection to the broker is lost
ConnectionLost ==
  /\ UNCHANGED <<concVars, dbVars, utilVars>>
  /\ pc \in {"idle", "qos", "consume", "waiting"}
  /\ amqpContext.connection = "open"
  /\ amqpContext' = [amqpContext EXCEPT !.connection = "closed"]
  /\ broker' = CloseConnection(broker)
  /\ UNCHANGED <<pc, call, last>>

\* another party declares queue q
ExternalDeclare(q) ==
  /\ UNCHANGED <<concVars, dbVars, utilVars>>
  /\ pc \in {"start", "nocontext", "idle", "consume", "waiting"}
  /\ q \notin broker.exists
  /\ broker' = [broker EXCEPT !.exists = @ \cup {q}]
  /\ UNCHANGED <<amqpContext, pc, call, last>>

\* another party publishes a body to queue q
ExternalPublish(q, body) ==
  /\ UNCHANGED <<concVars, dbVars, utilVars>>
  /\ pc \in {"start", "nocontext", "idle", "waiting"}
  /\ q \in broker.exists
  /\ Held(broker, Queues) < MaxMessages
  /\ broker' = Route(broker, q, body)
  /\ UNCHANGED <<amqpContext, pc, call, last>>

ConsumerIds == {"worker"}

Next ==
  \/ \E id \in ConsumerIds, dialOk, chOk \in BOOLEAN : GetAmqpContext(id, dialOk, chOk)
  \/ \E dialOk, chOk \in BOOLEAN : ResetCall(dialOk, chOk)
  \/ \E q \in Queues, declOk \in BOOLEAN : EnsureQueueExistsCall(q, declOk)
  \/ \E q \in Queues, v \in Values, declOk, pubOk \in BOOLEAN :
       PublishMessageCall(q, v, declOk, pubOk)
  \/ \E closeOk \in BOOLEAN : CloseCall(closeOk)
  \/ ResetError
  \/ \E q \in Queues, proto, qosOk \in BOOLEAN : ReceiveStart(q, proto, qosOk)
  \/ \E dialOk, chOk, qosOk \in BOOLEAN : QosRetry(dialOk, chOk, qosOk)
  \/ QosDone
  \/ \E consumeOk, dialOk, chOk \in BOOLEAN : ConsumeAttempt(consumeOk, dialOk, chOk)
  \/ RecvTimeout
  \/ RecvDelivery
  \/ RecvClosed
  \/ ConnectionLost
  \/ \E q \in Queues : ExternalDeclare(q)
  \/ \E q \in Queues, body \in Bodies : ExternalPublish(q, body)

Spec == Init /\ [][Next]_vars

(* --------- a healthy broker and a caller that loops on receive -------- *)
LoopQueue == "q1"
GoodBody == Marshal("hello").body

LiveNext ==
  \/ GetAmqpContext("worker", TRUE, TRUE)
  \/ ExternalDeclare(LoopQueue)
  \/ ExternalPublish(LoopQueue, GoodBody)
  \/ \E q \in Queues : PublishMessageCall(q, "hello", TRUE, TRUE)
  \/ ReceiveStart(LoopQueue, FALSE, TRUE)
  \/ QosDone
  \/ ConsumeAttempt(TRUE, TRUE, TRUE)
  \/ RecvTimeout
  \/ RecvDelivery
  \/ RecvClosed

\* the caller calls again after every outcome and a call in progress goes on
LiveSpec ==
  /\ Init
  /\ [][LiveNext]_vars
  /\ WF_vars(GetAmqpContext("worker", TRUE, TRUE))
  /\ WF_vars(ReceiveStart(LoopQueue, FALSE, TRUE))
  /\ WF_vars(QosDone)
  /\ WF_vars(ConsumeAttempt(TRUE, TRUE, TRUE))
  /\ WF_vars(RecvTimeout)
  /\ WF_vars(RecvDelivery)
  /\ WF_vars(RecvClosed)

(* ------- two goroutines call PublishMessage on one context ------------ *)
\* the context GetAmqpContext returns when the dial and Reset succeed
Connected ==
  Reset([ZeroContext EXCEPT !.consumerId = "worker", !.connection = "open"],
        InitBroker, TRUE, TRUE)

ConcInit ==
  /\ amqpContext = Connected.c
  /\ broker = Connected.b
  /\ pc = "idle"
  /\ call = NoCall
  /\ last = NoLast
  /\ threads = NoThreads
  /\ NoDb
  /\ NoUtil

Other(t) == CHOOSE u \in Threads : u # t
Running(t) == threads[t].pc \notin {"idle", "done", "crashed"}

\* line 134: goroutine t calls PublishMessage(q, v)
ThreadBegin(t, q, v) ==
  /\ threads[t].pc = "idle"
  /\ threads' = [threads EXCEPT ![t] = [NoThread EXCEPT !.pc = "lookup", !.q = q, !.v = v,
                                                        !.overlap = Running(Other(t))]]
  /\ UNCHANGED <<amqpVars, dbVars, utilVars>>

\* lines 117-118: the registry lookup; on a hit EnsureQueueExists returns nil
ThreadLookup(t) ==
  /\ threads[t].pc = "lookup"
  /\ threads' = [threads EXCEPT ![t].pc = IF InQueueRegistry(amqpContext, threads[t].q)
                                          THEN "assign" ELSE "declare",
                                ![t].eq = NilErr]
  /\ UNCHANGED <<amqpVars, dbVars, utilVars>>

\* line 122: channel.QueueDeclare is called and returns
ThreadDeclare(t, declOk) ==
  /\ threads[t].pc = "declare"
  /\ LET q == threads[t].q
         ok == broker.chanOpen /\ declOk
     IN /\ broker' = IF ok THEN [broker EXCEPT !.exists = @ \cup {q}, !.declared = @ \cup {q}]
                      ELSE CloseChannel(broker)
        /\ threads' = [threads EXCEPT
              ![t].pc = "store", ![t].declared = TRUE,
              ![t].res = IF ok THEN [entry |-> "declared", err |-> NilErr]
                         ELSE [entry |-> FailedDeclareEntry, err |-> ErrClosed],
              ![t].own = IF ok THEN NilErr
                         ELSE Wrapf(ErrClosed, "Cannot declare AMQP queue", q)]
  /\ UNCHANGED <<amqpContext, pc, call, last, dbVars, utilVars>>

\* line 121: the results are stored in the registry and in err
ThreadStore(t) ==
  /\ threads[t].pc = "store"
  /\ amqpContext' = [amqpContext EXCEPT !.queues[threads[t].q] = threads[t].res.entry,
                                        !.err = threads[t].res.err]
  /\ threads' = [threads EXCEPT ![t].pc = "check"]
  /\ UNCHANGED <<broker, pc, call, last, dbVars, utilVars>>

\* lines 123-128: err is tested, wrapped and returned, or nil is returned
ThreadCheck(t) ==
  /\ threads[t].pc = "check"
  /\ IF amqpContext.err # NilErr
     THEN LET e == Wrapf(amqpContext.err, "Cannot declare AMQP queue", threads[t].q)
          IN /\ amqpContext' = [amqpContext EXCEPT !.err = e]
             /\ threads' = [threads EXCEPT ![t].pc = "assign", ![t].eq = e]
     ELSE /\ threads' = [threads EXCEPT ![t].pc = "assign", ![t].eq = NilErr]
          /\ UNCHANGED amqpContext
  /\ UNCHANGED <<broker, pc, call, last, dbVars, utilVars>>

\* line 138: amqpContext.err = amqpContext.EnsureQueueExists(queueName)
ThreadAssign(t) ==
  /\ threads[t].pc = "assign"
  /\ amqpContext' = [amqpContext EXCEPT !.err = threads[t].eq]
  /\ threads' = [threads EXCEPT ![t].pc = "test"]
  /\ UNCHANGED <<broker, pc, call, last, dbVars, utilVars>>

\* lines 139-147: err is tested and the message is encoded
ThreadTest(t) ==
  /\ threads[t].pc = "test"
  /\ LET m == Marshal(threads[t].v)
         e == Wrapf(MarshalError, "Failed to marshall AMQP message", threads[t].v)
     IN IF amqpContext.err # NilErr
        THEN /\ threads' = [threads EXCEPT ![t].pc = "done", ![t].ret = amqpContext.err]
             /\ UNCHANGED amqpContext
        ELSE IF ~m.ok
        THEN /\ amqpContext' = [amqpContext EXCEPT !.err = e]
             /\ threads' = [threads EXCEPT ![t].pc = "done", ![t].ret = e, ![t].own = e]
        ELSE /\ threads' = [threads EXCEPT ![t].pc = "publish"]
             /\ UNCHANGED amqpContext
  /\ UNCHANGED <<broker, pc, call, last, dbVars, utilVars>>

\* lines 152-155: channel.Publish
ThreadPublish(t, pubOk) ==
  /\ threads[t].pc = "publish"
  /\ LET e == Wrapf(ErrClosed, "Failed to publish AMQP message", threads[t].v)
     IN IF broker.chanOpen /\ pubOk
        THEN /\ broker' = Route(broker, threads[t].q, Marshal(threads[t].v).body)
             /\ threads' = [threads EXCEPT ![t].pc = "return"]
             /\ UNCHANGED amqpContext
        ELSE /\ broker' = CloseChannel(broker)
             /\ amqpContext' = [amqpContext EXCEPT !.err = e]
             /\ threads' = [threads EXCEPT ![t].pc = "done", ![t].ret = e, ![t].own = e]
  /\ UNCHANGED <<pc, call, last, dbVars, utilVars>>

\* line 156: return amqpContext.err
ThreadReturn(t) ==
  /\ threads[t].pc = "return"
  /\ threads' = [threads EXCEPT ![t].pc = "done", ![t].ret = amqpContext.err]
  /\ UNCHANGED <<amqpVars, dbVars, utilVars>>

\* lines 117 and 121: the queues map is read and written without a lock; when one
\* goroutine writes it while the other reads or writes it, the Go runtime may
\* stop the process (concurrent map access)
ThreadRace(t) ==
  /\ {threads[t].pc, threads[Other(t)].pc} \subseteq {"lookup", "store"}
  /\ threads[t].pc = "store"
  /\ threads' = [u \in Threads |-> [threads[u] EXCEPT !.pc = "crashed"]]
  /\ UNCHANGED <<amqpVars, dbVars, utilVars>>

ConcNext ==
  \/ \E t \in Threads, q \in Queues, v \in Values : ThreadBegin(t, q, v)
  \/ \E t \in Threads : ThreadLookup(t)
  \/ \E t \in Threads, declOk \in BOOLEAN : ThreadDeclare(t, declOk)
  \/ \E t \in Threads : ThreadStore(t)
  \/ \E t \in Threads : ThreadCheck(t)
  \/ \E t \in Threads : ThreadAssign(t)
  \/ \E t \in Threads : ThreadTest(t)
  \/ \E t \in Threads, pubOk \in BOOLEAN : ThreadPublish(t, pubOk)
  \/ \E t \in Threads : ThreadReturn(t)
  \/ \E t \in Threads : ThreadRace(t)

ConcSpec == ConcInit /\ [][ConcNext]_vars

(* ------------------------- package dbutil ------------------------------ *)
\* var SKIP_ERROR
SKIP_ERROR == Err("Skipping due to previous error", 0, "", "")
SqlErrNoRows == Err("sql.ErrNoRows", 0, "", "")
\* any other error of database/sql
SqlError == Err("sql.Error", 0, "", "")
\* getDBConnection: the wrapped error of sql.Open or Ping
ConnectError == Err("Failed to connect to DB", 0, "", "sql.Open")
\* an error a caller stores with SetLastError
CallerError == Err("caller", 0, "", "")
\* errors.Wrap(e, msg)
Wrap(e, msg) == Err(msg, 0, "", e.kind)

Handlers == {"h1", "h2"}

DbRet(c, d, ret, row, sent, handled) ==
  [c |-> c, d |-> d, ret |-> ret, row |-> row, sent |-> sent, handled |-> handled,
   panic |-> FALSE]
\* a method call on a nil *sql.DB
DbPanic(c, d, sent) ==
  [c |-> c, d |-> d, ret |-> NilErr, row |-> FALSE, sent |-> sent, handled |-> <<>>,
   panic |-> TRUE]

\* handleError: the registered handler is called with err when err is set
HandleError(c) ==
  IF c.err # NilErr /\ c.errorHandler # "nil"
  THEN <<[handler |-> c.errorHandler, err |-> c.err]>> ELSE <<>>

\* tx, err = db.BeginTx(*ctx, nil) or db.Begin(): the context and the
\* database after it, and the call sent
Begin(c, d, beginOk) ==
  [c |-> IF beginOk THEN [c EXCEPT !.tx = "tx", !.err = NilErr]
         ELSE [c EXCEPT !.tx = "nil", !.err = SqlError],
   d |-> IF beginOk THEN [d EXCEPT !.txState = "open"] ELSE d,
   sent |-> <<IF c.ctx THEN "db.BeginTx" ELSE "db.Begin">>]

\* the previous-error guard, with its answer when it is never taken
NeverSkips(c) == FALSE

\* if dbContext.err != nil { return SKIP_ERROR }
Skips(c) == c.err # NilErr

\* line 122: activeContexts.Inc() as GetDbContext returns a new context
ActiveInc(d) ==
  [d EXCEPT !.active = @ + 1, !.obtained = @ + 1, !.isClosed = FALSE]

\* line 313: activeContexts.Dec() in Close
ActiveDec(d) ==
  [d EXCEPT !.active = @ - 1, !.closes = @ + 1, !.isClosed = TRUE,
            !.closed = IF d.isClosed THEN @ ELSE @ + 1]

GetDbContext(d, hasCtx, useTransaction, openOk, beginOk) ==
  LET c0 == [ZeroDbContext EXCEPT !.ctx = hasCtx]
      c1 == IF d.dbConnection # "nil" THEN [c0 EXCEPT !.db = d.dbConnection]
            ELSE IF openOk THEN [c0 EXCEPT !.db = "conn"]
            ELSE [c0 EXCEPT !.db = "nil", !.err = ConnectError]
      d1 == [d EXCEPT !.dbConnection = c1.db, !.txState = "none"]
      opened == IF d.dbConnection = "nil" THEN <<"sql.Open">> ELSE <<>>
  IN IF ~useTransaction THEN DbRet(c1, ActiveInc(d1), c1.err, FALSE, opened, <<>>)
     ELSE IF c1.db = "nil" THEN DbPanic(c1, d1, opened)
     ELSE LET b == Begin(c1, d1, beginOk)
          IN DbRet(b.c, ActiveInc(b.d), b.c.err, FALSE, opened \o b.sent, <<>>)

QueryRow(c, d) ==
  IF Skips(c) THEN DbRet(c, d, SKIP_ERROR, FALSE, <<>>, <<>>)
  ELSE IF c.db = "nil" THEN DbPanic(c, d, <<>>)
  ELSE DbRet(c, d, c.err, TRUE, <<"db.QueryRow">>, HandleError(c))

\* scan is what row.Scan returns: "ok", "norows" (sql.ErrNoRows) or "fail"
ScanQueryRow(c, d, supressErrNoRows, scan) ==
  IF Skips(c) THEN DbRet(c, d, SKIP_ERROR, FALSE, <<>>, <<>>)
  ELSE IF c.db = "nil" THEN DbPanic(c, d, <<>>)
  ELSE LET e == IF scan = "ok" THEN NilErr
                ELSE IF scan = "norows"
                THEN (IF supressErrNoRows THEN NilErr ELSE SqlErrNoRows)
                ELSE SqlError
           c1 == [c EXCEPT !.err = e]
       IN DbRet(c1, d, e, FALSE, <<"db.QueryRow">>, HandleError(c1))

Query(c, d, queryOk) ==
  IF Skips(c) THEN DbRet(c, d, SKIP_ERROR, FALSE, <<>>, <<>>)
  ELSE IF c.db = "nil" THEN DbPanic(c, d, <<>>)
  ELSE LET e == IF queryOk THEN NilErr ELSE SqlError
       IN DbRet([c EXCEPT !.err = e], d, e, queryOk, <<"db.Query">>, HandleError(c))

Execute(c, d, execOk) ==
  IF Skips(c) THEN DbRet(c, d, SKIP_ERROR, FALSE, <<>>, <<>>)
  ELSE IF c.tx # "nil"
  THEN LET exec == IF c.ctx THEN "tx.ExecContext" ELSE "tx.Exec"
           e == Wrap(SqlError, "Insert failed. Transaction rolled back")
           c1 == [c EXCEPT !.err = e]
       IN IF execOk /\ d.txState = "open"
          THEN DbRet(c, d, NilErr, FALSE, <<exec>>, <<>>)
          ELSE DbRet(c1, [d EXCEPT !.txState = IF @ = "open" THEN "rolledback" ELSE @],
                     e, FALSE, <<exec, "tx.Rollback">>, HandleError(c1))
  ELSE IF c.db = "nil" THEN DbPanic(c, d, <<>>)
  ELSE LET exec == IF c.ctx THEN "db.ExecContext" ELSE "db.Exec"
           e == Wrap(SqlError, "Insert failed")
           c1 == [c EXCEPT !.err = e]
       IN IF execOk THEN DbRet(c, d, NilErr, FALSE, <<exec>>, <<>>)
          ELSE DbRet(c1, d, e, FALSE, <<exec>>, HandleError(c1))

\* tx.Commit() or tx.Rollback() on the transaction the context holds
EndTx(d, how) == [d EXCEPT !.txState = IF @ = "open" THEN how ELSE @]

Commit(c, d, restartTx, beginOk) ==
  IF c.tx = "nil" THEN DbRet(c, d, c.err, FALSE, <<>>, <<>>)
  ELSE IF ~restartTx
  THEN DbRet(c, EndTx(d, "committed"), c.err, FALSE, <<"tx.Commit">>, <<>>)
  ELSE LET b == Begin(c, EndTx(d, "committed"), beginOk)
       IN DbRet(b.c, b.d, b.c.err, FALSE, <<"tx.Commit">> \o b.sent, <<>>)

Rollback(c, d, restartTx, beginOk) ==
  IF c.tx = "nil" THEN DbRet(c, d, c.err, FALSE, <<>>, <<>>)
  ELSE IF ~restartTx
  THEN DbRet(c, EndTx(d, "rolledback"), c.err, FALSE, <<"tx.Rollback">>, <<>>)
  ELSE LET b == Begin(c, EndTx(d, "rolledback"), beginOk)
       IN DbRet(b.c, b.d, b.c.err, FALSE, <<"tx.Rollback">> \o b.sent, <<>>)

\* a Close that commits whatever the stored error is
CloseAlwaysCommits(c) == TRUE

\* line 298: if dbContext.err == nil
CloseCommits(c) == c.err = NilErr

DbClose(c, d) ==
  LET r == IF CloseCommits(c) THEN Commit(c, d, FALSE, TRUE)
           ELSE Rollback(c, d, FALSE, TRUE)
      c1 == [r.c EXCEPT !.err = NilErr, !.tx = "nil"]
  IN DbRet(c1, ActiveDec(r.d), c1.err, FALSE, r.sent, <<>>)

\* a DbContext call runs to completion; a panic ends the process
DbComplete(op, r) ==
  /\ database.pc = "ready"
  /\ IF r.panic
     THEN /\ dbContext' = ZeroDbContext
          /\ database' = [NoDatabase EXCEPT !.pc = "crashed"]
          /\ dbLast' = [NoDbLast EXCEPT !.op = op]
     ELSE /\ dbContext' = r.c
          /\ database' = r.d
          /\ dbLast' = [op |-> op, ret |-> r.ret, row |-> r.row, sent |-> r.sent,
                        handled |-> r.handled]
  /\ UNCHANGED <<amqpVars, concVars, utilVars>>

GetDbContextCall(hasCtx, useTransaction, openOk, beginOk) ==
  /\ database.pc \in {"none", "ready"}
  /\ database.obtained < MaxDbContexts
  /\ LET r == GetDbContext(database, hasCtx, useTransaction, openOk, beginOk)
     IN IF r.panic
        THEN /\ dbContext' = ZeroDbContext
             /\ database' = [NoDatabase EXCEPT !.pc = "crashed"]
             /\ dbLast' = [NoDbLast EXCEPT !.op = "GetDbContext"]
        ELSE /\ dbContext' = r.c
             /\ database' = [r.d EXCEPT !.pc = "ready"]
             /\ dbLast' = [op |-> "GetDbContext", ret |-> r.ret, row |-> FALSE,
                           sent |-> r.sent, handled |-> <<>>]
  /\ UNCHANGED <<amqpVars, concVars, utilVars>>

RegisterErrorHandler(h) ==
  /\ database.pc = "ready"
  /\ dbContext' = [dbContext EXCEPT !.errorHandler = h]
  /\ dbLast' = [NoDbLast EXCEPT !.op = "RegisterErrorHandler"]
  /\ UNCHANGED <<database, amqpVars, concVars, utilVars>>

QueryRowCall == DbComplete("QueryRow", QueryRow(dbContext, database))
ScanQueryRowCall(supressErrNoRows, scan) ==
  DbComplete("ScanQueryRow", ScanQueryRow(dbContext, database, supressErrNoRows, scan))
QueryCall(queryOk) == DbComplete("Query", Query(dbContext, database, queryOk))
ExecuteCall(execOk) == DbComplete("Execute", Execute(dbContext, database, execOk))
CommitCall(restartTx, beginOk) ==
  DbComplete("Commit", Commit(dbContext, database, restartTx, beginOk))
RollbackCall(restartTx, beginOk) ==
  DbComplete("Rollback", Rollback(dbContext, database, restartTx, beginOk))
DbCloseCall ==
  /\ database.closes < MaxDbCloses
  /\ DbComplete("Close", DbClose(dbContext, database))

\* SetLastError(err); ResetError() is SetLastError(nil)
DbSetLastError(e) ==
  /\ database.pc = "ready"
  /\ dbContext' = [dbContext EXCEPT !.err = e]
  /\ dbLast' = [NoDbLast EXCEPT !.op = IF e = NilErr THEN "ResetError" ELSE "SetLastError"]
  /\ UNCHANGED <<database, amqpVars, concVars, utilVars>>

DbInit ==
  /\ amqpContext = ZeroContext
  /\ broker = InitBroker
  /\ pc = "start"
  /\ call = NoCall
  /\ last = NoLast
  /\ threads = NoThreads
  /\ NoDb
  /\ NoUtil

DbNext ==
  \/ \E hasCtx, useTransaction, openOk, beginOk \in BOOLEAN :
       GetDbContextCall(hasCtx, useTransaction, openOk, beginOk)
  \/ \E h \in Handlers : RegisterErrorHandler(h)
  \/ QueryRowCall
  \/ \E supress \in BOOLEAN, scan \in {"ok", "norows", "fail"} : ScanQueryRowCall(supress, scan)
  \/ \E queryOk \in BOOLEAN : QueryCall(queryOk)
  \/ \E execOk \in BOOLEAN : ExecuteCall(execOk)
  \/ \E restartTx, beginOk \in BOOLEAN : CommitCall(restartTx, beginOk)
  \/ \E restartTx, beginOk \in BOOLEAN : RollbackCall(restartTx, beginOk)
  \/ DbCloseCall
  \/ \E e \in {NilErr, CallerError} : DbSetLastError(e)

DbSpec == DbInit /\ [][DbNext]_vars

(* ----------------------- package serviceutil --------------------------- *)
\* var ErrInvalidArgument = errors.New(...)
ErrInvalidArgument == Err("One ore more request arguments are invalid", 0, "", "")

\* the errors, message formats and argument lists AsGrpcError is called with;
\* a format is a sequence of pieces, "%v" being a verb
GrpcErrors ==
  {NilErr, SqlErrNoRows, ErrInvalidArgument, SqlError, CallerError,
   Wrap(SqlErrNoRows, "lookup"), Wrap(ErrInvalidArgument, "lookup")}
GrpcFormats == {<<>>, <<"bad request">>, <<"no id ", "%v">>, <<"%v", " of ", "%v">>}
GrpcArgs == {<<>>, <<"a">>, <<"a", "b">>, <<"b">>}

\* fmt.Sprintf(message, messageArgs): the argument slice is passed as ONE
\* operand, so the first verb prints the whole slice, every further verb is
\* missing its operand, and a format with no verb reports the slice as extra
RECURSIVE Sprintf(_, _, _)
Sprintf(format, operand, used) ==
  IF format = <<>>
  THEN IF used THEN <<>> ELSE <<[extra |-> operand]>>
  ELSE IF Head(format) = "%v"
       THEN <<IF used THEN [missing |-> TRUE] ELSE [slice |-> operand]>>
              \o Sprintf(Tail(format), operand, TRUE)
       ELSE <<[text |-> Head(format)]>> \o Sprintf(Tail(format), operand, used)

\* status.Errorf(c, msg): nil for codes.OK, a status error otherwise
StatusErrorf(code, message) ==
  IF code = "OK" THEN NilStatus ELSE [isNil |-> FALSE, code |-> code, message |-> message]

\* a mapping that forgets the ErrInvalidArgument case
MapsAllToInternal(err) == IF err = SqlErrNoRows THEN "NotFound" ELSE "Internal"

\* the switch of AsGrpcError: err == sql.ErrNoRows, err == ErrInvalidArgument, default
GrpcCode(err) ==
  IF err = SqlErrNoRows THEN "NotFound"
  ELSE IF err = ErrInvalidArgument THEN "InvalidArgument"
  ELSE "Internal"

AsGrpcError(err, message, messageArgs) ==
  IF err = NilErr THEN NilStatus
  ELSE LET formatted == Sprintf(message, messageArgs, FALSE)
           code == GrpcCode(err)
       IN IF code = "NotFound" THEN StatusErrorf(code, <<[text |-> "instance not found"]>>)
          ELSE IF code = "InvalidArgument" THEN StatusErrorf(code, formatted)
          ELSE StatusErrorf(code, <<[text |-> "an internal error occurred"]>>)

AsGrpcErrorCall ==
  /\ ~grpcCall.done
  /\ grpcCall' = [grpcCall EXCEPT !.done = TRUE,
                                  !.ret = AsGrpcError(grpcCall.err, grpcCall.message, grpcCall.args)]
  /\ UNCHANGED <<amqpVars, concVars, dbVars, logging, helper, dbThreads, twin>>

GrpcInit ==
  /\ amqpContext = ZeroContext
  /\ broker = InitBroker
  /\ pc = "start"
  /\ call = NoCall
  /\ last = NoLast
  /\ threads = NoThreads
  /\ NoDb
  /\ grpcCall \in [err : GrpcErrors, message : GrpcFormats, args : GrpcArgs,
                   done : {FALSE}, ret : {NilStatus}]
  /\ logging = NoLogging
  /\ helper = NoHelper
  /\ dbThreads = NoDbThreads
  /\ twin = NoTwin

GrpcNext == AsGrpcErrorCall

GrpcSpec == GrpcInit /\ [][GrpcNext]_vars

(* --------------------------- package apputil --------------------------- *)
\* calls of the logging functions in one run
MaxLogCalls == 4

\* the two revisions of the package: apex/log (log.Entry) and slog (LoggerWrapper)
LogVersions == {"apex", "slog"}
LogLevels == {"Debug", "Info", "Warn"}

\* an InitLogging that does not look at the package variable
LoggerAlwaysNil(l) == TRUE

\* if logger == nil
LoggerIsNil(l) == l.logger = 0

\* createSLogger(level), or log.SetHandler + log.SetLevel(level): one more
\* logger is built and installed
CreateLogger(l, level) ==
  [l EXCEPT !.installed = @ + 1, !.inner = l.installed + 1, !.level = level]

\* logger = &LoggerWrapper{...} or log.WithFields(...): one more instance
NewWrapper(l) == [l EXCEPT !.created = @ + 1, !.logger = l.created + 1]

InitLoggingWithLevel(l, level) ==
  IF l.version = "apex"
  THEN IF LoggerIsNil(l) THEN NewWrapper(CreateLogger(l, level)) ELSE l
  ELSE LET l1 == CreateLogger(l, level)
       IN IF LoggerIsNil(l) THEN NewWrapper(l1) ELSE l1

InitLogging(l) ==
  IF l.version = "apex" THEN InitLoggingWithLevel(l, "Info")
  ELSE IF LoggerIsNil(l) THEN NewWrapper(CreateLogger(l, "Info")) ELSE l

\* InitConfig as far as the logger goes; readOk is whether the configuration
\* could be read (Fatalf ends the process otherwise), debug the "debug" key
InitConfig(l, readOk, debug) ==
  LET l1 == IF l.version = "apex" \/ LoggerIsNil(l) THEN InitLogging(l) ELSE l
  IN IF ~readOk THEN [l1 EXCEPT !.exited = TRUE]
     ELSE IF ~debug THEN l1
     ELSE IF l.version = "apex" THEN [l1 EXCEPT !.level = "Debug"]
     ELSE CreateLogger(l1, "Debug")

LogReturn(l, op, returns) ==
  /\ ~logging.exited
  /\ logging.calls < MaxLogCalls
  /\ logging' = [l EXCEPT !.op = op, !.calls = @ + 1,
                          !.ret = IF returns THEN l.logger ELSE 0,
                          !.first = IF op = "InitLogging" /\ @ = 0 THEN l.logger ELSE @]
  /\ UNCHANGED <<amqpVars, concVars, dbVars, grpcCall, helper, dbThreads, twin>>

InitLoggingCall == LogReturn(InitLogging(logging), "InitLogging", TRUE)
InitLoggingWithLevelCall(level) ==
  LogReturn(InitLoggingWithLevel(logging, level), "InitLoggingWithLevel", TRUE)
InitConfigCall(readOk, debug) ==
  LogReturn(InitConfig(logging, readOk, debug), "InitConfig", FALSE)

LogInit ==
  /\ amqpContext = ZeroContext
  /\ broker = InitBroker
  /\ pc = "start"
  /\ call = NoCall
  /\ last = NoLast
  /\ threads = NoThreads
  /\ NoDb
  /\ grpcCall = NoGrpcCall
  /\ \E v \in LogVersions : logging = [NoLogging EXCEPT !.version = v]
  /\ helper = NoHelper
  /\ dbThreads = NoDbThreads
  /\ twin = NoTwin

LogNext ==
  \/ InitLoggingCall
  \/ \E level \in LogLevels : InitLoggingWithLevelCall(level)
  \/ \E readOk, debug \in BOOLEAN : InitConfigCall(readOk, debug)

LogSpec == LogInit /\ [][LogNext]_vars

(* ------------- DbConnectionHelper used by several goroutines ----------- *)
\* calls of GetDbContext or CloseContexts one goroutine makes
MaxDbCalls == 2

\* a mutex that never blocks
LockIgnored(h) == TRUE

\* helper.lock.Lock() returns only when no goroutine holds the mutex
CanLock(h) == h.lock = "none"

NoneCrashed == \A t \in Threads : dbThreads[t].pc # "crashed"
InSection(t) == dbThreads[t].pc \in {"lookup", "open", "store", "unlock", "clear"}
\* another goroutine is blocked in Lock while t is in the critical section
Contended(t) == helper.contended \/ dbThreads[Other(t)].pc = "lock"

\* a goroutine calls GetDbContext(ctx, useTransaction) or CloseContexts()
HelperCall(t, op, useTransaction) ==
  /\ NoneCrashed
  /\ dbThreads[t].pc \in {"idle", "done"}
  /\ dbThreads[t].calls < MaxDbCalls
  /\ dbThreads' = [dbThreads EXCEPT ![t] =
       [NoDbThread EXCEPT !.pc = "lock", !.op = op, !.calls = dbThreads[t].calls + 1,
                          !.useTransaction = useTransaction /\ op = "GetDbContext"]]
  /\ UNCHANGED <<helper, amqpVars, concVars, dbVars, grpcCall, logging, twin>>

\* line 90 / line 129: helper.lock.Lock()
HelperLock(t) ==
  /\ NoneCrashed
  /\ dbThreads[t].pc = "lock"
  /\ CanLock(helper)
  /\ helper' = [helper EXCEPT !.lock = t]
  /\ dbThreads' = [dbThreads EXCEPT ![t].pc =
                     IF dbThreads[t].op = "GetDbContext" THEN "lookup" ELSE "clear"]
  /\ UNCHANGED <<amqpVars, concVars, dbVars, grpcCall, logging, twin>>

\* lines 98-99: dbContext.db = helper.dbConnection; if dbContext.db == nil
HelperLookup(t) ==
  /\ NoneCrashed
  /\ dbThreads[t].pc = "lookup"
  /\ dbThreads' = [dbThreads EXCEPT ![t].db = helper.dbConnection,
                                    ![t].epoch = helper.closes,
                                    ![t].pc = IF helper.dbConnection = 0 THEN "open"
                                              ELSE "unlock"]
  /\ helper' = [helper EXCEPT !.contended = Contended(t)]
  /\ UNCHANGED <<amqpVars, concVars, dbVars, grpcCall, logging, twin>>

\* lines 100-102: getDBConnection; on failure the inner function returns
HelperOpen(t, openOk) ==
  /\ NoneCrashed
  /\ dbThreads[t].pc = "open"
  /\ IF openOk
     THEN /\ dbThreads' = [dbThreads EXCEPT ![t].db = helper.made + 1, ![t].pc = "store"]
          /\ helper' = [helper EXCEPT !.made = @ + 1, !.opened = @ + 1,
                                      !.contended = Contended(t)]
     ELSE /\ dbThreads' = [dbThreads EXCEPT ![t].db = 0, ![t].err = ConnectError,
                                            ![t].pc = "unlock"]
          /\ helper' = [helper EXCEPT !.contended = Contended(t)]
  /\ UNCHANGED <<amqpVars, concVars, dbVars, grpcCall, logging, twin>>

\* lines 103-106: helper.dbConnection = dbContext.db and the pool settings
HelperStore(t) ==
  /\ NoneCrashed
  /\ dbThreads[t].pc = "store"
  /\ helper' = [helper EXCEPT !.dbConnection = dbThreads[t].db, !.contended = Contended(t)]
  /\ dbThreads' = [dbThreads EXCEPT ![t].pc = "unlock"]
  /\ UNCHANGED <<amqpVars, concVars, dbVars, grpcCall, logging, twin>>

\* line 93: the deferred helper.lock.Unlock()
HelperUnlock(t) ==
  /\ NoneCrashed
  /\ dbThreads[t].pc = "unlock"
  /\ helper' = [helper EXCEPT !.lock = "none", !.contended = Contended(t)]
  /\ dbThreads' = [dbThreads EXCEPT ![t].pc = "begin"]
  /\ UNCHANGED <<amqpVars, concVars, dbVars, grpcCall, logging, twin>>

\* lines 111-124: the transaction is begun outside the lock (a nil db panics),
\* the gauge is incremented and the context returned
HelperReturn(t, beginOk) ==
  /\ NoneCrashed
  /\ dbThreads[t].pc = "begin"
  /\ IF dbThreads[t].useTransaction /\ dbThreads[t].db = 0
     THEN /\ dbThreads' = [dbThreads EXCEPT ![t].pc = "crashed"]
          /\ UNCHANGED helper
     ELSE /\ dbThreads' = [dbThreads EXCEPT
               ![t].pc = "done",
               ![t].tx = dbThreads[t].useTransaction /\ beginOk,
               ![t].err = IF ~dbThreads[t].useTransaction THEN @
                          ELSE IF beginOk THEN NilErr ELSE SqlError]
          /\ helper' = [helper EXCEPT !.active = @ + 1]
  /\ UNCHANGED <<amqpVars, concVars, dbVars, grpcCall, logging, twin>>

\* lines 132-135 and the deferred Unlock of CloseContexts
HelperClear(t) ==
  /\ NoneCrashed
  /\ dbThreads[t].pc = "clear"
  /\ helper' = IF helper.dbConnection = 0
               THEN [helper EXCEPT !.lock = "none", !.contended = Contended(t)]
               ELSE [helper EXCEPT !.dbConnection = 0, !.opened = 0, !.closes = @ + 1,
                                   !.lock = "none", !.contended = Contended(t)]
  /\ dbThreads' = [dbThreads EXCEPT ![t].pc = "done"]
  /\ UNCHANGED <<amqpVars, concVars, dbVars, grpcCall, logging, twin>>

HelperInit ==
  /\ amqpContext = ZeroContext
  /\ broker = InitBroker
  /\ pc = "start"
  /\ call = NoCall
  /\ last = NoLast
  /\ threads = NoThreads
  /\ NoDb
  /\ NoUtil

HelperNext ==
  \/ \E t \in Threads, useTransaction \in BOOLEAN : HelperCall(t, "GetDbContext", useTransaction)
  \/ \E t \in Threads : HelperCall(t, "CloseContexts", FALSE)
  \/ \E t \in Threads : HelperLock(t)
  \/ \E t \in Threads : HelperLookup(t)
  \/ \E t \in Threads, openOk \in BOOLEAN : HelperOpen(t, openOk)
  \/ \E t \in Threads : HelperStore(t)
  \/ \E t \in Threads : HelperUnlock(t)
  \/ \E t \in Threads, beginOk \in BOOLEAN : HelperReturn(t, beginOk)
  \/ \E t \in Threads : HelperClear(t)

HelperSpec == HelperInit /\ [][HelperNext]_vars

(* ------- ReceiveMessage and ReceiveProtoMessage, side by side --------- *)
\* a panic ends the run's process
RunCrash(op, q, calls) ==
  [NoRun EXCEPT !.pc = "crashed", !.last = Finish(op, q, NilErr, "panic", calls)]

\* a call other than a receive, which completes in one step
RunComplete(s, op, q, r) ==
  IF r.panic THEN RunCrash(op, q, r.calls)
  ELSE [s EXCEPT !.c = r.c, !.b = r.b, !.pc = "idle", !.call = NoCall, !.calls = NoCalls,
                 !.last = Finish(op, q, r.ret, "returned", r.calls)]

\* the receive call op returns to its caller
RunReturn(s, op, c, b, ret, outcome, delivery, value, calls) ==
  [c |-> c, b |-> b, pc |-> "idle", call |-> NoCall, calls |-> NoCalls,
   last |-> [NoLast EXCEPT !.op = op, !.q = s.call.q, !.ret = ret,
                           !.outcome = outcome, !.delivery = delivery,
                           !.value = value, !.calls = calls]]

\* GetAmqpContext when the dial succeeds
RunGetAmqpContext(s, consumerId, chOk) ==
  LET c0 == [ZeroContext EXCEPT !.consumerId = consumerId, !.connection = "open"]
      r == Reset(c0, s.b, TRUE, chOk)
  IN [s EXCEPT !.c = r.c, !.b = r.b, !.pc = "idle",
               !.last = Finish("GetAmqpContext", "", r.c.err, "context",
                               <<"Dial">> \o r.calls)]

\* lines 212-218 / 262-268 and 159-166: the registry lookup of receive call op
\* and, on a miss, the first Qos of registerConsumer
RunReceiveStart(s, op, q, qosOk) ==
  LET k == [NoCall EXCEPT !.q = q, !.proto = (op = "ReceiveProtoMessage")]
  IN IF HasDelivery(s.c, q)
     THEN [s EXCEPT !.pc = "waiting", !.call = k, !.calls = NoCalls, !.last = NoLast]
     ELSE IF IsNilChannel(s.c) THEN RunCrash(op, q, Called(NoCalls, "Qos"))
     ELSE LET r == Qos(s.c, s.b, qosOk)
          IN [s EXCEPT !.c = r.c, !.b = r.b, !.pc = "qos",
                       !.call = [k EXCEPT !.attempts = 1],
                       !.calls = Called(NoCalls, "Qos"), !.last = NoLast]

\* lines 167-187: one iteration of the Qos loop of registerConsumer, or its exit
RunQos(s, op, dialOk, chOk, qosOk) ==
  IF QosRetryAllowed(s.c, s.call.retries)
  THEN LET r == Reset(s.c, s.b, dialOk, chOk)
           k == [s.call EXCEPT !.retries = @ + 1, !.slept = @ + BackoffSeconds,
                               !.resets = @ + 1]
       IN IF r.panic THEN RunCrash(op, s.call.q, Called(s.calls, "Reset"))
          ELSE IF r.c.err # NilErr
          THEN [s EXCEPT !.c = r.c, !.b = r.b, !.call = k,
                         !.calls = Called(@, "Reset")]
          ELSE LET r2 == Qos(r.c, r.b, qosOk)
               IN [s EXCEPT !.c = r2.c, !.b = r2.b,
                            !.call = [k EXCEPT !.attempts = @ + 1],
                            !.calls = Called(Called(@, "Reset"), "Qos")]
  ELSE IF s.c.err # NilErr
  THEN LET e == Wrapf(s.c.err, "Failed to set Qos on queue", s.call.q)
       IN RunReturn(s, op, [s.c EXCEPT !.err = e], s.b, e, "register-failed",
                    FALSE, "", s.calls)
  ELSE [s EXCEPT !.pc = "consume",
                 !.call = [s.call EXCEPT !.retries = 0, !.attempts = 0,
                                         !.resets = 0, !.slept = 0]]

\* lines 188-209 and 219-224 / 269-274: one Consume attempt and what follows it
RunConsume(s, op, consumeOk, dialOk, chOk) ==
  IF IsNilChannel(s.c) THEN RunCrash(op, s.call.q, Called(s.calls, "Consume"))
  ELSE
    LET r == Consume(s.c, s.b, s.call.q, consumeOk)
        k == [s.call EXCEPT !.attempts = @ + 1]
        made == Called(s.calls, "Consume")
    IN IF r.ret = NilErr
       THEN IF r.c.mapsNil THEN RunCrash(op, s.call.q, made)
            ELSE [s EXCEPT !.c = [r.c EXCEPT !.deliveryChannels[s.call.q] = "chan"],
                           !.b = r.b, !.pc = "waiting", !.calls = made,
                           !.call = [k EXCEPT !.retries = 0, !.attempts = 0, !.resets = 0,
                                              !.slept = 0, !.consumed = TRUE]]
       ELSE IF ConsumeRetryAllowed(r.c, s.call.retries)
       THEN LET r2 == Reset(r.c, r.b, dialOk, chOk)
            IN IF r2.panic THEN RunCrash(op, s.call.q, Called(made, "Reset"))
               ELSE [s EXCEPT !.c = r2.c, !.b = r2.b, !.calls = Called(made, "Reset"),
                              !.call = [k EXCEPT !.retries = @ + 1, !.resets = @ + 1,
                                                 !.slept = @ + BackoffSeconds]]
       ELSE LET e == Wrapf(r.c.err, "Cannot consume AMQP queue", s.call.q)
            IN RunReturn(s, op, [r.c EXCEPT !.err = e], r.b, e, "register-failed",
                         FALSE, "", made)

\* lines 231-236: ReceiveMessage when its timer fires
JsonTimeout(s) ==
  IF IsNilChannel(s.c) THEN RunCrash("ReceiveMessage", s.call.q, Called(s.calls, "Cancel"))
  ELSE RunReturn(s, "ReceiveMessage", [s.c EXCEPT !.err = ErrNoMessage],
                 Cancel(s.b, s.c.consumerId), ErrNoMessage, "timeout", FALSE, "",
                 Called(s.calls, "Cancel"))

\* lines 241-251: ReceiveMessage when the stream is closed
JsonClosed(s) ==
  IF IsNilChannel(s.c) THEN RunCrash("ReceiveMessage", s.call.q, Called(s.calls, "Cancel"))
  ELSE RunReturn(s, "ReceiveMessage", s.c, Cancel(s.b, s.c.consumerId), s.c.err,
                 "closed", FALSE, "", Called(s.calls, "Cancel"))

\* lines 237-240 and 254-258: ReceiveMessage when the stream yields a delivery
JsonDelivery(s) ==
  LET body == Head(s.b.msgs[s.call.q])
      b1 == [s.b EXCEPT !.msgs[s.call.q] = Tail(@)]
      d == Unmarshal(body)
  IN IF body = ""
     THEN RunReturn(s, "ReceiveMessage", [s.c EXCEPT !.err = EmptyBodyError(s.c)], b1,
                    EmptyBodyError(s.c), "empty-body", FALSE, "", s.calls)
     ELSE LET e == IF d.ok THEN NilErr ELSE UnmarshalError
          IN RunReturn(s, "ReceiveMessage", [s.c EXCEPT !.err = e], b1, e,
                       IF d.ok THEN "message" ELSE "undecodable", TRUE, d.value, s.calls)

\* lines 281-286: ReceiveProtoMessage when its timer fires
ProtoTimeout(s) ==
  IF IsNilChannel(s.c)
  THEN RunCrash("ReceiveProtoMessage", s.call.q, Called(s.calls, "Cancel"))
  ELSE RunReturn(s, "ReceiveProtoMessage", [s.c EXCEPT !.err = ErrNoMessage],
                 Cancel(s.b, s.c.consumerId), ErrNoMessage, "timeout", FALSE, "",
                 Called(s.calls, "Cancel"))

\* a closed-stream branch that leaves the consumer registered
ProtoClosedKeepsConsumer(s) ==
  RunReturn(s, "ReceiveProtoMessage", s.c, s.b, s.c.err, "closed", FALSE, "", s.calls)

\* lines 291-301: ReceiveProtoMessage when the stream is closed
ProtoClosed(s) ==
  IF IsNilChannel(s.c)
  THEN RunCrash("ReceiveProtoMessage", s.call.q, Called(s.calls, "Cancel"))
  ELSE RunReturn(s, "ReceiveProtoMessage", s.c, Cancel(s.b, s.c.consumerId), s.c.err,
                 "closed", FALSE, "", Called(s.calls, "Cancel"))

\* lines 287-290 and 304-308: ReceiveProtoMessage when the stream yields a delivery
ProtoDelivery(s) ==
  LET body == Head(s.b.msgs[s.call.q])
      b1 == [s.b EXCEPT !.msgs[s.call.q] = Tail(@)]
      d == ProtoUnmarshal(body)
  IN IF body = ""
     THEN RunReturn(s, "ReceiveProtoMessage", [s.c EXCEPT !.err = EmptyBodyError(s.c)],
                    b1, EmptyBodyError(s.c), "empty-body", FALSE, "", s.calls)
     ELSE LET e == IF d.ok THEN NilErr ELSE ProtoUnmarshalError
          IN RunReturn(s, "ReceiveProtoMessage", [s.c EXCEPT !.err = e], b1, e,
                       IF d.ok THEN "message" ELSE "undecodable", TRUE, d.value, s.calls)

\* the same step taken by both callers
Both(j, p) ==
  /\ twin' = [json |-> j, proto |-> p]
  /\ UNCHANGED <<amqpVars, concVars, dbVars, grpcCall, logging, helper, dbThreads>>

TwinGetAmqpContext(consumerId, chOk) ==
  /\ twin.json.pc = "start"
  /\ Both(RunGetAmqpContext(twin.json, consumerId, chOk),
          RunGetAmqpContext(twin.proto, consumerId, chOk))

TwinEnsureQueueExists(q, declOk) ==
  /\ twin.json.pc = "idle"
  /\ Both(RunComplete(twin.json, "EnsureQueueExists", q,
                      EnsureQueueExists(twin.json.c, twin.json.b, q, declOk)),
          RunComplete(twin.proto, "EnsureQueueExists", q,
                      EnsureQueueExists(twin.proto.c, twin.proto.b, q, declOk)))

TwinReset(dialOk, chOk) ==
  /\ twin.json.pc = "idle"
  /\ twin.json.b.chanOpen => twin.json.b.stale < MaxStale
  /\ Both(RunComplete(twin.json, "Reset", "",
                      Reset(twin.json.c, twin.json.b, dialOk, chOk)),
          RunComplete(twin.proto, "Reset", "",
                      Reset(twin.proto.c, twin.proto.b, dialOk, chOk)))

\* ReceiveMessage(q, ...) by one caller and ReceiveProtoMessage(q, ...) by the other
TwinReceiveStart(q, qosOk) ==
  /\ twin.json.pc = "idle"
  /\ Both(RunReceiveStart(twin.json, "ReceiveMessage", q, qosOk),
          RunReceiveStart(twin.proto, "ReceiveProtoMessage", q, qosOk))

TwinQos(dialOk, chOk, qosOk) ==
  /\ twin.json.pc = "qos"
  /\ Both(RunQos(twin.json, "ReceiveMessage", dialOk, chOk, qosOk),
          RunQos(twin.proto, "ReceiveProtoMessage", dialOk, chOk, qosOk))

TwinConsume(consumeOk, dialOk, chOk) ==
  /\ twin.json.pc = "consume"
  /\ Both(RunConsume(twin.json, "ReceiveMessage", consumeOk, dialOk, chOk),
          RunConsume(twin.proto, "ReceiveProtoMessage", consumeOk, dialOk, chOk))

TwinTimeout ==
  /\ twin.json.pc = "waiting"
  /\ twin.json.b.streams[twin.json.call.q] = "open"
  /\ twin.json.b.msgs[twin.json.call.q] = <<>>
  /\ Both(JsonTimeout(twin.json), ProtoTimeout(twin.proto))

TwinDelivery ==
  /\ twin.json.pc = "waiting"
  /\ twin.json.b.streams[twin.json.call.q] = "open"
  /\ twin.json.b.msgs[twin.json.call.q] # <<>>
  /\ Both(JsonDelivery(twin.json), ProtoDelivery(twin.proto))

TwinClosed ==
  /\ twin.json.pc = "waiting"
  /\ twin.json.b.streams[twin.json.call.q] = "closed"
  /\ Both(JsonClosed(twin.json), ProtoClosed(twin.proto))

\* the broker's side, the same for both callers
RunConnectionLost(s) ==
  [s EXCEPT !.c.connection = "closed", !.b = CloseConnection(s.b)]

TwinConnectionLost ==
  /\ twin.json.pc \in {"idle", "qos", "consume", "waiting"}
  /\ twin.json.c.connection = "open"
  /\ Both(RunConnectionLost(twin.json), RunConnectionLost(twin.proto))

TwinDeclare(q) ==
  /\ twin.json.pc \in {"start", "idle", "consume", "waiting"}
  /\ q \notin twin.json.b.exists
  /\ Both([twin.json EXCEPT !.b.exists = @ \cup {q}],
          [twin.proto EXCEPT !.b.exists = @ \cup {q}])

TwinPublish(q, body) ==
  /\ twin.json.pc \in {"start", "idle", "waiting"}
  /\ q \in twin.json.b.exists
  /\ Held(twin.json.b, Queues) < MaxMessages
  /\ Both([twin.json EXCEPT !.b = Route(@, q, body)],
          [twin.proto EXCEPT !.b = Route(@, q, body)])

TwinInit ==
  /\ amqpContext = ZeroContext
  /\ broker = InitBroker
  /\ pc = "start"
  /\ call = NoCall
  /\ last = NoLast
  /\ threads = NoThreads
  /\ NoDb
  /\ NoUtil

TwinNext ==
  \/ \E id \in ConsumerIds, chOk \in BOOLEAN : TwinGetAmqpContext(id, chOk)
  \/ \E q \in Queues, declOk \in BOOLEAN : TwinEnsureQueueExists(q, declOk)
  \/ \E dialOk, chOk \in BOOLEAN : TwinReset(dialOk, chOk)
  \/ \E q \in Queues, qosOk \in BOOLEAN : TwinReceiveStart(q, qosOk)
  \/ \E dialOk, chOk, qosOk \in BOOLEAN : TwinQos(dialOk, chOk, qosOk)
  \/ \E consumeOk, dialOk, chOk \in BOOLEAN : TwinConsume(consumeOk, dialOk, chOk)
  \/ TwinTimeout
  \/ TwinDelivery
  \/ TwinClosed
  \/ TwinConnectionLost
  \/ \E q \in Queues : TwinDeclare(q)
  \/ \E q \in Queues, body \in Bodies : TwinPublish(q, body)

TwinSpec == TwinInit /\ [][TwinNext]_vars

(* ---------- receive calls against any broker, run to their end -------- *)
\* a step of the goroutine that executes a receive call: the sleeps of the
\* retry loops are finite and the timer of the select fires
ReceiveStep ==
  \/ \E dialOk, chOk, qosOk \in BOOLEAN : QosRetry(dialOk, chOk, qosOk)
  \/ QosDone
  \/ \E consumeOk, dialOk, chOk \in BOOLEAN : ConsumeAttempt(consumeOk, dialOk, chOk)
  \/ RecvTimeout
  \/ RecvDelivery
  \/ RecvClosed

TermNext ==
  \/ \E id \in ConsumerIds, dialOk, chOk \in BOOLEAN : GetAmqpContext(id, dialOk, chOk)
  \/ \E q \in Queues, proto, qosOk \in BOOLEAN : ReceiveStart(q, proto, qosOk)
  \/ \E dialOk, chOk, qosOk \in BOOLEAN : QosRetry(dialOk, chOk, qosOk)
  \/ QosDone
  \/ \E consumeOk, dialOk, chOk \in BOOLEAN : ConsumeAttempt(consumeOk, dialOk, chOk)
  \/ RecvTimeout
  \/ RecvDelivery
  \/ RecvClosed
  \/ ConnectionLost
  \/ \E q \in Queues : ExternalDeclare(q)
  \/ \E q \in Queues, body \in Bodies : ExternalPublish(q, body)

TermSpec == Init /\ [][TermNext]_vars /\ WF_vars(ReceiveStep)

(* ============================== claims ================================ *)
IsReceive(op) == op \in {"ReceiveMessage", "ReceiveProtoMessage"}
RegistriesEmpty(c) ==
  \A q \in Queues : c.queues[q] = "none" /\ c.deliveryChannels[q] = "nil"
OpenChannels == (IF broker.chanOpen THEN 1 ELSE 0) + broker.stale

\* C1: after a receive from queue q ended because the timer fired, the next
\* receive from q on the same context registers a fresh consumer (it issues
\* Consume) before it waits on a delivery stream
C1_ReregistersAfterTimeout ==
  (pc = "waiting" /\ call.prev = "timeout") => call.consumed

\* C2: when QueueDeclare fails inside EnsureQueueExists(q) the wrapped error is
\* returned and is the last error, and the queue registry holds no entry for q
C2_FailedDeclareLeavesRegistry ==
  (last.op = "EnsureQueueExists" /\ last.outcome = "returned" /\ last.ret # NilErr)
    => /\ amqpContext.err = last.ret
       /\ last.ret.kind = "Cannot declare AMQP queue"
       /\ last.ret.queue = last.q
       /\ amqpContext.queues[last.q] = "none"

\* C3: while every Consume fails with code 404, registerConsumer makes exactly
\* MaxRetries retries, each one Reset and one sleep of BackoffSeconds, and only
\* then returns the wrapped error: in the Consume loop the failed Consume calls,
\* the Resets and the sleeps all equal retries, which never exceeds MaxRetries,
\* and the call ends with a wrapped 404 only when the Consume that follows the
\* last retry fails too
C3_LoopCounts ==
  pc = "consume" =>
    /\ call.retries <= MaxRetries
    /\ call.attempts = call.retries
    /\ call.resets = call.retries
    /\ call.slept = call.retries * BackoffSeconds
C3_TerminalStep ==
  (pc = "consume" /\ pc' = "idle" /\ last'.ret.code = NotFoundCode)
    => /\ call.retries = MaxRetries
       /\ call.attempts = MaxRetries
       /\ last'.outcome = "register-failed"
       /\ last'.ret = Wrapf(AmqpError(NotFoundCode), "Cannot consume AMQP queue", call.q)
       /\ amqpContext'.err = last'.ret
C3_NotFoundRetryBudget == [](C3_LoopCounts) /\ [][C3_TerminalStep]_vars
C3_Witness ==
  /\ pc = "idle"
  /\ IsReceive(last.op)
  /\ last.outcome = "register-failed"
  /\ last.ret.kind = "Cannot consume AMQP queue"
  /\ last.ret.code = NotFoundCode

\* C4 as stated: after any call to Reset returns, whatever its outcome, both
\* registries are empty
C4_ResetAlwaysClears ==
  (last.op = "Reset" /\ last.outcome = "returned") => RegistriesEmpty(amqpContext)

\* C4 amended: after a call to Reset that returns nil both registries are
\* empty, the next EnsureQueueExists issues a QueueDeclare and the next receive
\* starts consumer registration instead of reading a cached stream; a Reset
\* that returns an error discards no registry entry
C4_AfterReset ==
  last.op = "Reset" /\ last.outcome = "returned" =>
    IF last.ret = NilErr
    THEN RegistriesEmpty(amqpContext) /\ ~amqpContext.mapsNil
    ELSE last.dropped = {}
C4_NextUse ==
  (last.op = "Reset" /\ last.outcome = "returned" /\ last.ret = NilErr) =>
    /\ (last'.op = "EnsureQueueExists" /\ last'.outcome = "returned")
          => last'.calls = <<"QueueDeclare">>
    /\ pc' # "waiting"
    /\ (pc' = "qos" => call'.attempts = 1)
C4_SuccessfulResetClears == [](C4_AfterReset) /\ [][C4_NextUse]_vars
C4_Witness ==
  /\ last.op = "Reset" /\ last.ret = NilErr /\ last.outcome = "returned"
  /\ last.dropped # {}

\* C5: a context has at most one open channel on its connection; the channel a
\* Reset replaces is no longer open
C5_AtMostOneOpenChannel == OpenChannels <= 1

\* C6: no two active consumers on the channel carry the same consumer tag
C6_UniqueConsumerTags ==
  \A x, y \in broker.consumers : x.tag = y.tag => x = y

C8_PublishedEventuallyReceived ==
  (broker.msgs[LoopQueue] # <<>>) ~> (broker.msgs[LoopQueue] = <<>>)

\* C9: after every completed Reset, EnsureQueueExists, PublishMessage,
\* ReceiveMessage, ReceiveProtoMessage or Close, LastError() is the error that
\* call returned
C9_LastErrorIsReturnValue ==
  (/\ pc = "idle"
   /\ last.op \in {"Reset", "EnsureQueueExists", "PublishMessage", "ReceiveMessage",
                   "ReceiveProtoMessage", "Close"})
    => amqpContext.err = last.ret

\* C10: no sequence of calls, under any broker failure, crashes the process
C10_NeverPanics == pc # "crashed"

\* C11: after a receive from queue q returned because its delivery stream was
\* closed, the next receive from q on the same context registers a consumer
\* again (it issues Consume) before it waits on a delivery stream
C11_ReregistersAfterClosed ==
  (pc = "waiting" /\ call.prev = "closed") => call.consumed

\* C12: on a healthy broker a ReceiveMessage(q, dst) that follows a
\* PublishMessage(q, m) which returned nil on the same context returns a
\* delivery and a nil error with dst decoded to m
C12_RoundTrip ==
  [][(/\ call.prev = "published"
      /\ pc \in {"qos", "consume", "waiting"}
      /\ pc' \in {"idle", "crashed"})
       => (/\ pc' = "idle"
           /\ last'.delivery
           /\ last'.ret = NilErr
           /\ last'.value = call.expect)]_vars

\* C13: of two consecutive EnsureQueueExists calls for the same queue name the
\* second issues no QueueDeclare and returns nil, so the two issue at most one
\* QueueDeclare between them, and both return nil when the first did
C13_IdempotentDeclare ==
  [][(/\ last.op = "EnsureQueueExists" /\ last.outcome = "returned"
      /\ last'.op = "EnsureQueueExists" /\ last'.q = last.q
      /\ last' # last)
       => (/\ last'.outcome = "returned"
           /\ last'.calls = <<>>
           /\ last'.ret = NilErr
           /\ Len(last.calls) + Len(last'.calls) <= 1
           /\ amqpContext'.queues = amqpContext.queues)]_vars
C13_Witness ==
  /\ last.op = "EnsureQueueExists" /\ last.outcome = "returned"
  /\ last.calls = <<>> /\ last.ret = NilErr
  /\ amqpContext.queues[last.q] = "declared"
  /\ last.q \in broker.declared

\* C14: GetAmqpContext returns no context when the dial fails, and every
\* context it returns has had Reset applied successfully: its channel is open
\* and both registries are initialised and empty
C14_ReturnedContextIsReset ==
  /\ (last.op = "GetAmqpContext" /\ last.outcome = "nil")
        => (pc = "nocontext" /\ last.ret = DialError)
  /\ (last.op = "GetAmqpContext" /\ last.outcome = "context")
        => (/\ last.ret = NilErr
            /\ amqpContext.channel = "chan"
            /\ ~amqpContext.mapsNil
            /\ RegistriesEmpty(amqpContext))

\* C15: a receive that ends because the 10-second timer fired returns no
\* delivery and ErrNoMessage, leaves ErrNoMessage as the last error and has sent
\* exactly one Cancel for the context's consumer identity, which leaves no
\* consumer under that identity on the channel
C15_TimeoutOutcome ==
  (IsReceive(last.op) /\ last.outcome = "timeout")
    => /\ ~last.delivery
       /\ last.ret = ErrNoMessage
       /\ amqpContext.err = ErrNoMessage
       /\ last.waited = ReceiveTimeoutSeconds
       /\ last.calls = <<"Cancel">>
       /\ ~\E x \in broker.consumers : x.tag = amqpContext.consumerId
C15_Witness ==
  /\ IsReceive(last.op) /\ last.outcome = "timeout"
  /\ broker.chanOpen /\ broker.streams[last.q] = "closed"

\* C16: when the stream yields a delivery whose non-empty body cannot be
\* deserialized into the destination, the receive returns the deserialization
\* error together with the delivery, and the last error is that error
C16_UndecodableDelivery ==
  [][(/\ pc = "waiting" /\ Stream = "open" /\ pc' # "waiting"
      /\ broker.msgs[call.q] # <<>>
      /\ Head(broker.msgs[call.q]) # ""
      /\ ~(IF call.proto THEN ProtoUnmarshal(Head(broker.msgs[call.q])).ok
                         ELSE Unmarshal(Head(broker.msgs[call.q])).ok))
       => (/\ pc' = "idle"
           /\ last'.op = RecvOp /\ last'.q = call.q
           /\ last'.delivery
           /\ last'.ret = (IF call.proto THEN ProtoUnmarshalError ELSE UnmarshalError)
           /\ amqpContext'.err = last'.ret)]_vars
C16_Witness ==
  /\ IsReceive(last.op) /\ last.outcome = "undecodable"
  /\ last.delivery /\ last.ret \in {UnmarshalError, ProtoUnmarshalError}

\* C17: a Close that returns has closed the channel and then the connection,
\* and its return value, which is the result of closing the connection, is the
\* last error; a Close that follows a Close executes both closes again (and
\* the connection, already closed, reports that)
C17_CloseCalls ==
  (last.op = "Close" /\ last.outcome = "returned")
    => /\ last.calls = <<"channel.Close", "connection.Close">>
       /\ last.ret \in {NilErr, ErrClosed}
       /\ amqpContext.err = last.ret
       /\ amqpContext.connection = "closed"
       /\ ~broker.chanOpen
C17_SecondClose ==
  (/\ last.op = "Close" /\ last.outcome = "returned"
   /\ last'.op = "Close" /\ last' # last)
    => /\ last'.outcome = "returned"
       /\ last'.calls = <<"channel.Close", "connection.Close">>
       /\ last'.ret = ErrClosed
       /\ amqpContext'.err = ErrClosed
C17_CloseOrder == [](C17_CloseCalls) /\ [][C17_SecondClose]_vars
C17_Witness ==
  /\ last.op = "Close" /\ last.outcome = "returned" /\ last.ret = ErrClosed
  /\ last.calls = <<"channel.Close", "connection.Close">>
  /\ amqpContext.channel = "chan"

\* C18: the context has no mutual exclusion.  Two PublishMessage calls that do
\* not overlap keep the sequential guarantees (at most one QueueDeclare for a
\* queue name, and each call returns the error its own operations produced);
\* two calls that overlap can break both, as the witness shows: QueueDeclare
\* is issued twice for one name and a call returns an error the other wrote
AllDone == \A t \in Threads : threads[t].pc = "done"
Overlapped == \E t \in Threads : threads[t].overlap
DoubleDeclare ==
  \E t, u \in Threads : /\ t # u /\ threads[t].q = threads[u].q
                        /\ threads[t].declared /\ threads[u].declared
ForeignError == \E t \in Threads : threads[t].ret # threads[t].own
C18_SerializedCallsAreSafe ==
  (AllDone /\ ~Overlapped) => (~DoubleDeclare /\ ~ForeignError)
C18_Witness ==
  AllDone /\ Overlapped /\ DoubleDeclare /\ ForeignError


\* the four database operations guarded by the previous-error check
SkippedOps == {"QueryRow", "ScanQueryRow", "Query", "Execute"}

\* C19: a QueryRow, ScanQueryRow, Query or Execute called while the context
\* holds an error returns SKIP_ERROR, sends nothing to the database or the
\* transaction, calls no handler and leaves the context, stored error
\* included, as it was
C19_Skipped ==
  (dbContext.err # NilErr /\ dbLast'.op \in SkippedOps /\ dbVars' # dbVars)
    => /\ database'.pc = "ready"
       /\ dbLast'.ret = SKIP_ERROR
       /\ dbLast'.sent = <<>>
       /\ dbLast'.handled = <<>>
       /\ dbContext' = dbContext
       /\ database' = database

\* C19: ResetError, SetLastError(nil) and Close each leave the stored error nil
C19_Cleared ==
  (dbContext.err # NilErr /\ dbLast'.op \in {"ResetError", "Close"} /\ dbVars' # dbVars)
    => dbContext'.err = NilErr

\* C19: both parts, over every step of a DbContext
C19_SkipOnPreviousError == [][C19_Skipped /\ C19_Cleared]_vars

\* an Execute was skipped on a context that holds a transaction and an error
C19_Witness ==
  /\ dbLast.op = "Execute"
  /\ dbLast.ret = SKIP_ERROR
  /\ dbContext.err \notin {NilErr, SKIP_ERROR}
  /\ dbContext.tx # "nil"

\* C20: after Close the stored error is nil, the transaction reference is
\* cleared and Close has returned nil
C20_AfterClose ==
  dbLast.op = "Close"
    => (dbContext.err = NilErr /\ dbContext.tx = "nil" /\ dbLast.ret = NilErr)

\* C20: Close sends exactly tx.Commit when the context holds a transaction and
\* no error, exactly tx.Rollback when it holds a transaction and an error,
\* and an open transaction ends accordingly
C20_CommitOrRollback ==
  (dbLast'.op = "Close" /\ dbVars' # dbVars /\ dbContext.tx # "nil")
    => /\ database'.pc = "ready"
       /\ dbLast'.sent = <<IF dbContext.err = NilErr THEN "tx.Commit" ELSE "tx.Rollback">>
       /\ database.txState = "open"
            => database'.txState =
                 IF dbContext.err = NilErr THEN "committed" ELSE "rolledback"

\* C20: both parts, over every Close
C20_CloseEndsTransaction == [](C20_AfterClose) /\ [][C20_CommitOrRollback]_vars

\* a Close rolled back a transaction that was still open
C20_Witness ==
  /\ dbLast.op = "Close"
  /\ dbLast.sent = <<"tx.Rollback">>
  /\ database.txState = "rolledback"
  /\ dbContext.tx = "nil"

\* C21: with a handler registered, a QueryRow, ScanQueryRow, Query or Execute
\* that runs (it is not skipped) and ends with the context's error set has
\* called the registered handler, and no other, once with that error
C21_HandlerOnError ==
  [][(/\ dbLast'.op \in SkippedOps
      /\ dbVars' # dbVars
      /\ database'.pc = "ready"
      /\ dbContext.err = NilErr
      /\ dbContext.errorHandler # "nil"
      /\ dbContext'.err # NilErr)
     => dbLast'.handled = <<[handler |-> dbContext.errorHandler, err |-> dbContext'.err]>>]_vars

\* C22: AsGrpcError returns nil exactly when the given error is nil, and
\* otherwise a status error whose code is NotFound for sql.ErrNoRows,
\* InvalidArgument for ErrInvalidArgument and Internal for any other error
C22_AsGrpcErrorCodes ==
  grpcCall.done =>
    /\ grpcCall.ret.isNil <=> grpcCall.err = NilErr
    /\ grpcCall.err # NilErr =>
         grpcCall.ret.code =
           CASE grpcCall.err = SqlErrNoRows -> "NotFound"
             [] grpcCall.err = ErrInvalidArgument -> "InvalidArgument"
             [] OTHER -> "Internal"

\* AsGrpcError has mapped ErrInvalidArgument, formatting the caller's message
C22_Witness ==
  /\ grpcCall.done
  /\ grpcCall.err = ErrInvalidArgument
  /\ grpcCall.ret.code = "InvalidArgument"
  /\ grpcCall.ret.message = <<[text |-> "no id "], [slice |-> <<"a">>]>>

C24_RecoversAfterFailedRedial ==
  [][(pc = "qos" /\ amqpContext.err = DialError /\ call.retries < MaxRetries)
     => pc' # "crashed"]_vars

\* C25: a Qos loop that is left with the error still set is left by returning
\* the wrapped Qos error for the queue, after exactly MaxRetries retries, each
\* with one backoff and one Reset, with no Consume call and no new
\* delivery-registry entry
C25_QosRetriesExhausted ==
  [][(pc = "qos" /\ amqpContext.err # NilErr /\ pc' # "qos")
     => /\ pc' = "idle"
        /\ last'.outcome = "register-failed"
        /\ last'.ret = Wrapf(amqpContext.err, "Failed to set Qos on queue", call.q)
        /\ amqpContext'.err = last'.ret
        /\ call.retries = MaxRetries
        /\ call.resets = MaxRetries
        /\ call.slept = MaxRetries * BackoffSeconds
        /\ ~call.consumed
        /\ amqpContext'.deliveryChannels = amqpContext.deliveryChannels]_vars

\* C26: a Reset that finds the connection closed and whose redial fails
\* returns the dial error and leaves it as the last error, opens no channel,
\* and leaves the channel handle and both registries as they were
C26_FailedRedialKeepsState ==
  [][(amqpContext.connection = "closed" /\ amqpContext'.connection = "nil"
      /\ pc' # "crashed")
     => /\ amqpContext'.err = DialError
        /\ amqpContext'.channel = amqpContext.channel
        /\ amqpContext'.mapsNil = amqpContext.mapsNil
        /\ amqpContext'.queues = amqpContext.queues
        /\ amqpContext'.deliveryChannels = amqpContext.deliveryChannels
        /\ broker' = broker
        /\ pc = "idle" => /\ last'.op = "Reset"
                          /\ last'.ret = DialError
                          /\ last'.calls = <<"IsClosed", "Dial">>]_vars

\* a Reset returned the dial error and both registries still hold an entry
C26_Witness ==
  /\ last.op = "Reset"
  /\ last.ret = DialError
  /\ amqpContext.err = DialError
  /\ amqpContext.connection = "nil"
  /\ \E q \in Queues : amqpContext.queues[q] # "none"
  /\ \E q \in Queues : amqpContext.deliveryChannels[q] # "nil"

\* C27: a Consume attempt that fails although the queue exists, or because the
\* channel is closed (so the error is not the broker's 404), ends the receive
\* call in the same step with the wrapped consume error for the queue: no
\* channel is opened, nothing is retried and neither registry changes
C27_OtherConsumeErrorIsTerminal ==
  [][(/\ pc = "consume"
      /\ call.q \in broker.exists \/ ~broker.chanOpen
      /\ pc' # "consume" \/ call'.attempts # call.attempts
      /\ pc' \notin {"waiting", "crashed"})
     => /\ pc' = "idle"
        /\ last'.outcome = "register-failed"
        /\ last'.ret.kind = "Cannot consume AMQP queue"
        /\ last'.ret.queue = call.q
        /\ last'.ret.code # NotFoundCode
        /\ amqpContext'.err = last'.ret
        /\ ~broker'.chanOpen
        /\ broker'.stale = broker.stale
        /\ amqpContext'.connection = amqpContext.connection
        /\ amqpContext'.channel = amqpContext.channel
        /\ amqpContext'.queues = amqpContext.queues
        /\ amqpContext'.deliveryChannels = amqpContext.deliveryChannels]_vars

\* a receive call ended with the wrapped consume error for an existing queue
C27_Witness ==
  /\ last.op \in {"ReceiveMessage", "ReceiveProtoMessage"}
  /\ last.outcome = "register-failed"
  /\ last.ret.kind = "Cannot consume AMQP queue"
  /\ last.ret.code # NotFoundCode
  /\ last.q \in broker.exists
  /\ amqpContext.connection = "open"

\* how often a channel or connection call occurs in the calls of an operation
RECURSIVE Count(_, _)
Count(calls, name) ==
  IF calls = <<>> THEN 0
  ELSE (IF Head(calls) = name THEN 1 ELSE 0) + Count(Tail(calls), name)

\* the step is a PublishMessage call that returned
PublishReturned ==
  pc = "idle" /\ pc' = "idle" /\ last'.op = "PublishMessage" /\ last' # last

\* C28: a PublishMessage call makes at most one QueueDeclare and at most one
\* Publish and no call of Reset (IsClosed, Dial, Channel)
C28_PublishCalls ==
  last.op = "PublishMessage" =>
    /\ Count(last.calls, "Publish") <= 1
    /\ Count(last.calls, "QueueDeclare") <= 1
    /\ \A name \in {"IsClosed", "Dial", "Channel"} : Count(last.calls, name) = 0
    /\ last.ret.kind \in {"Cannot declare AMQP queue", "Failed to marshall AMQP message"}
         => Count(last.calls, "Publish") = 0

\* C28: a failed declaration is returned by the call it happens in, without a
\* Publish; a call that stops before Publish although the declaration did not
\* fail returns the marshalling error; a Publish that fails is returned; and a
\* call that returns nil has marshalled its value and published it once
C28_FailureReturned ==
  PublishReturned =>
    /\ (Count(last'.calls, "QueueDeclare") = 1 /\ last'.q \notin broker'.declared)
         => /\ last'.ret = Wrapf(ErrClosed, "Cannot declare AMQP queue", last'.q)
            /\ Count(last'.calls, "Publish") = 0
    /\ (/\ Count(last'.calls, "Publish") = 0
        /\ Count(last'.calls, "QueueDeclare") = 0 \/ last'.q \in broker'.declared)
         => last'.ret.kind = "Failed to marshall AMQP message"
    /\ (Count(last'.calls, "Publish") = 1 /\ ~broker'.chanOpen)
         => last'.ret.kind = "Failed to publish AMQP message"
    /\ last'.ret = NilErr
         => /\ Count(last'.calls, "Publish") = 1
            /\ Marshal(last'.value).ok
            /\ last'.q \in broker'.exists
                 => broker'.msgs[last'.q] = Append(broker.msgs[last'.q], Marshal(last'.value).body)
    /\ amqpContext'.err = last'.ret

\* C28: both parts, over every PublishMessage call
C28_PublishOnceNoRetry == [](C28_PublishCalls) /\ [][C28_FailureReturned]_vars

\* a PublishMessage declared the queue, called Publish once and returned the
\* publish failure
C28_Witness ==
  /\ last.op = "PublishMessage"
  /\ last.calls = <<"QueueDeclare", "Publish">>
  /\ last.ret.kind = "Failed to publish AMQP message"

\* an entry of the queue registry, or of the delivery registry, is gone after the step
QueueEntryLost ==
  \E q \in Queues : amqpContext.queues[q] # "none" /\ amqpContext'.queues[q] = "none"
DeliveryEntryLost ==
  \E q \in Queues :
    amqpContext.deliveryChannels[q] # "nil" /\ amqpContext'.deliveryChannels[q] = "nil"

\* C29: a step that removes an entry from the queue registry or from the
\* delivery registry leaves both registries without any entry
C29_RegistriesClearedTogether ==
  [][(QueueEntryLost \/ DeliveryEntryLost)
     => \A q \in Queues : /\ amqpContext'.queues[q] = "none"
                          /\ amqpContext'.deliveryChannels[q] = "nil"]_vars

\* a Reset discarded the entries of every queue and left both registries empty
C29_Witness ==
  /\ last.op = "Reset"
  /\ last.ret = NilErr
  /\ last.dropped = Queues
  /\ \A q \in Queues : /\ amqpContext.queues[q] = "none"
                       /\ amqpContext.deliveryChannels[q] = "nil"

\* C30: between two clearings by CloseContexts at most one sql.Open succeeds,
\* at most one goroutine is between Lock and Unlock, and every DbContext that
\* got a connection since the cache was last cleared holds the cached one
C30_OneSharedConnection ==
  /\ helper.opened <= 1
  /\ Cardinality({t \in Threads : InSection(t)}) <= 1
  /\ \A t \in Threads :
       (/\ dbThreads[t].op = "GetDbContext"
        /\ dbThreads[t].pc \in {"begin", "done"}
        /\ dbThreads[t].db # 0
        /\ dbThreads[t].epoch = helper.closes)
       => dbThreads[t].db = helper.dbConnection

\* two goroutines contended for the lock and both returned a DbContext on the
\* one connection that was opened
C30_Witness ==
  /\ helper.contended
  /\ helper.made = 1
  /\ helper.dbConnection = 1
  /\ \A t \in Threads : /\ dbThreads[t].op = "GetDbContext"
                        /\ dbThreads[t].pc = "done"
                        /\ dbThreads[t].db = 1
                        /\ dbThreads[t].calls = 1

\* C31: while a consumer is being registered for a queue the delivery registry
\* holds no entry for it, and after a failed registration it holds none either
C31_NoEntryWithoutConsume ==
  /\ pc \in {"qos", "consume"} => amqpContext.deliveryChannels[call.q] = "nil"
  /\ (pc = "idle" /\ IsReceive(last.op) /\ last.outcome = "register-failed")
       => amqpContext.deliveryChannels[last.q] = "nil"

\* C31: an entry appears in the delivery registry only for the queue of the
\* receive call in progress, in the step in which its Consume succeeds, and
\* every successful Consume adds the entry
C31_EntryOnlyByConsume ==
  /\ \A q \in Queues :
       (amqpContext.deliveryChannels[q] = "nil" /\ amqpContext'.deliveryChannels[q] # "nil")
         => /\ pc = "consume" /\ pc' = "waiting" /\ q = call.q
            /\ call'.consumed
            /\ broker'.streams[q] = "open"
            /\ [queue |-> q, tag |-> amqpContext.consumerId] \in broker'.consumers
  /\ (pc = "consume" /\ pc' = "waiting")
       => (amqpContext.deliveryChannels[call.q] = "nil"
           /\ amqpContext'.deliveryChannels[call.q] # "nil")

\* C31: both parts
C31_OneStreamPerQueue == [](C31_NoEntryWithoutConsume) /\ [][C31_EntryOnlyByConsume]_vars

\* a Consume succeeded and its stream is cached for the queue, next to the
\* cached stream of another queue
C31_Witness ==
  /\ pc = "waiting"
  /\ call.consumed
  /\ amqpContext.deliveryChannels[call.q] # "nil"
  /\ broker.streams[call.q] = "open"
  /\ \E q \in Queues : q # call.q /\ amqpContext.deliveryChannels[q] # "nil"

\* C32: when the stream yields a delivery with an empty body, the receive call
\* returns no delivery and a non-nil error that names the consumer identity
\* and is the last error; it calls no Cancel and leaves the registries, the
\* consumers and the delivery streams as they were
C32_EmptyBody ==
  [][(/\ pc = "waiting" /\ pc' # "waiting"
      /\ Stream = "open"
      /\ broker.msgs[call.q] # <<>>
      /\ Head(broker.msgs[call.q]) = "")
     => /\ pc' = "idle"
        /\ ~last'.delivery
        /\ last'.ret # NilErr
        /\ last'.ret.cause = amqpContext.consumerId
        /\ last'.ret.kind = "Failed to get delivery from delivery chan. Body is empty."
        /\ amqpContext'.err = last'.ret
        /\ last'.calls = <<>>
        /\ amqpContext'.queues = amqpContext.queues
        /\ amqpContext'.deliveryChannels = amqpContext.deliveryChannels
        /\ broker'.consumers = broker.consumers
        /\ broker'.streams = broker.streams]_vars

\* a receive ended on an empty body
C32_Witness ==
  /\ pc = "idle"
  /\ IsReceive(last.op)
  /\ last.outcome = "empty-body"
  /\ amqpContext.deliveryChannels[last.q] # "nil"
  /\ broker.streams[last.q] = "open"

\* C33: whenever a delivery stream is cached in the delivery registry and
\* open, the channel its consumer was registered on has had Qos with
\* prefetch count 1 applied, also after the channel was reopened on a 404
\* from Consume
C33_CachedStreamHasQos ==
  \A q \in Queues :
    (/\ ~amqpContext.mapsNil
     /\ amqpContext.deliveryChannels[q] # "nil"
     /\ broker.streams[q] = "open")
      => broker.qos

\* the queue a step of a receive call works on, and the steps of such a call
\* that return or continue (a panic ends the process)
C34_Queue == IF pc = "idle" THEN call'.q ELSE call.q
C34_ReceiveStep ==
  /\ \/ pc \in {"qos", "consume", "waiting"}
     \/ pc = "idle" /\ pc' \in {"qos", "waiting"}
  /\ pc' # "crashed"
C34_OthersKept ==
  \A q \in Queues \ {C34_Queue} :
    /\ amqpContext'.queues[q] = amqpContext.queues[q]
    /\ amqpContext'.deliveryChannels[q] = amqpContext.deliveryChannels[q]

\* C34 as stated: a step of a receive call for queue q leaves the queue
\* registry and delivery registry entries of every other queue unchanged,
\* also on the Qos retry path and on the 404 retry path
C34_OtherQueuesUnchanged == [][C34_ReceiveStep => C34_OthersKept]_vars

\* C34 amended: a step of a receive call for queue q that performs no Reset
\* leaves the entries of every other queue unchanged; a retry step, which
\* calls Reset, either leaves them unchanged (the Reset failed) or leaves both
\* registries without any entry (the Reset succeeded)
C34_OtherQueuesUnchangedUnlessReset ==
  [][C34_ReceiveStep =>
       IF call'.resets > call.resets
       THEN C34_OthersKept \/ RegistriesEmpty(amqpContext')
       ELSE C34_OthersKept]_vars

\* a receive call is between two retries whose Reset failed, and the other
\* queue still has its cached stream
C34_Witness ==
  /\ pc \in {"qos", "consume"}
  /\ call.resets >= 1
  /\ amqpContext.err # NilErr
  /\ \E q \in Queues \ {call.q} :
       amqpContext.deliveryChannels[q] # "nil"

\* C35: a receive call that returns no delivery (registration failure,
\* timeout, empty body, closed stream) returns a non-nil error
C35_NoDeliveryMeansError ==
  (/\ pc = "idle"
   /\ IsReceive(last.op)
   /\ last.outcome \in {"register-failed", "timeout", "empty-body", "closed"}
   /\ ~last.delivery)
    => last.ret # NilErr

\* the kinds of outcome of a receive call: a delivery handed to the decoder is
\* one kind whatever the decoder made of its body
OutcomeKind(o) == IF o \in {"message", "undecodable"} THEN "delivery" ELSE o

\* the same error, or each decoder's own error for a body it rejected
SameUpToDecoder(e, f) == e = f \/ (e = UnmarshalError /\ f = ProtoUnmarshalError)

\* C36: ReceiveMessage and ReceiveProtoMessage, started from the same context
\* state against the same broker behaviour, are at the same position after
\* every step, have issued the same channel calls (Qos, Consume, Cancel,
\* Reset), hold the same registries, connection and channel against the same
\* broker state, and return the same kind of outcome with the same error, up
\* to the decoder's own error
C36_ReceiveVariantsAgree ==
  LET j == twin.json
      p == twin.proto
  IN /\ j.pc = p.pc
     /\ j.calls = p.calls
     /\ j.last.calls = p.last.calls
     /\ [j.call EXCEPT !.proto = FALSE] = [p.call EXCEPT !.proto = FALSE]
     /\ j.c.queues = p.c.queues
     /\ j.c.deliveryChannels = p.c.deliveryChannels
     /\ j.c.mapsNil = p.c.mapsNil
     /\ j.c.connection = p.c.connection
     /\ j.c.channel = p.c.channel
     /\ j.b = p.b
     /\ OutcomeKind(j.last.outcome) = OutcomeKind(p.last.outcome)
     /\ j.last.delivery = p.last.delivery
     /\ j.last.q = p.last.q
     /\ SameUpToDecoder(j.last.ret, p.last.ret)
     /\ SameUpToDecoder(j.c.err, p.c.err)

\* both callers registered a consumer after a retry, waited, and were handed
\* the same delivery by their decoders
C36_Witness ==
  /\ twin.json.pc = "idle"
  /\ twin.json.last.op = "ReceiveMessage"
  /\ twin.proto.last.op = "ReceiveProtoMessage"
  /\ twin.json.last.outcome = "message"
  /\ twin.proto.last.outcome = "message"
  /\ twin.json.last.value = twin.proto.last.value
  /\ twin.json.last.calls.Reset >= 1
  /\ twin.proto.last.calls.Consume >= 1

\* C37: GetDbContext returns a DbContext without crashing; when the
\* connection could not be opened, for useTransaction true as well as false,
\* the context's last error is the connection error and no transaction was
\* begun on the missing connection
C37_GetDbContextNeverCrashes ==
  dbLast.op = "GetDbContext"
    => /\ database.pc = "ready"
       /\ dbContext.db = "nil"
            => /\ dbContext.err = ConnectError
               /\ dbContext.tx = "nil"
               /\ dbLast.sent = <<"sql.Open">>

\* C38: the gauge active_db_contexts equals the number of contexts obtained
\* from GetDbContext and not yet closed, and is never negative, also when
\* Close is called more than once on the same context
C38_GaugeCountsOpenContexts ==
  database.pc = "ready"
    => /\ database.active = database.obtained - database.closed
       /\ database.active >= 0

\* while registerConsumer is in its Qos loop it has made at most 11 Qos
\* attempts; while it is in its Consume loop it has made at most 10 Consume
\* attempts, so that the next one is at most the 11th
C39_AttemptsBounded ==
  /\ pc = "qos" => (call.attempts <= MaxRetries + 1 /\ call.retries <= MaxRetries)
  /\ pc = "consume" => (call.attempts <= MaxRetries /\ call.retries <= MaxRetries)

\* C39: every receive call ends, whatever the broker does (it returns, or the
\* process panics): registration makes at most 11 Qos attempts and at most 11
\* Consume attempts, and the wait on the delivery stream ends
C39_ReceiveTerminates ==
  /\ [](C39_AttemptsBounded)
  /\ (pc \in {"qos", "consume", "waiting"}) ~> (pc \in {"idle", "crashed"})

\* the Consume loop has used all ten retries and is about to make its 11th
\* attempt
C39_Witness ==
  /\ pc = "consume"
  /\ call.retries = MaxRetries
  /\ call.attempts = MaxRetries
====
